---- MODULE Spec2Model ----
(***************************************************************************)
(* A model of swolfpy's LCA_matrix (src/swolfpy/LCA_matrix.py): the        *)
(* key-addressed tables built from the solved sparse matrices, the rebuild *)
(* of the sparse matrices from a value array, the static appliers          *)
(* update_techmatrix / update_biomatrix, and the mass-flow aggregators     *)
(* get_mass_flow / get_mass_flow_comp.                                     *)
(*                                                                         *)
(* Python values are modelled as follows.                                  *)
(*   str            [t |-> "str",   s |-> <string>, e |-> << >>]           *)
(*   tuple of str   [t |-> "tuple", s |-> "",       e |-> <<s1, s2>>]      *)
(*   float          [nan |-> FALSE, n |-> <integer>], NaN is nan |-> TRUE  *)
(*   dict           a sequence of [k |-> key, v |-> value] without         *)
(*                  repeated keys, in insertion order                      *)
(*   csr_matrix     [shape, indptr, indices, data] with 0-based offsets    *)
(*                  and indices held in 1-based sequences                  *)
(***************************************************************************)
EXTENDS Integers, Sequences, FiniteSets, TLC

VARIABLES
    solved,               \* the two matrices as the solver left them when __init__ ran
    dicts,                \* self.dicts.{product, activity, biosphere}.reversed
    technosphere_matrix,  \* self.technosphere_matrix
    biosphere_matrix,     \* self.biosphere_matrix
    tech_coo_rows,        \* self._tech_coo_rows
    tech_coo_cols,        \* self._tech_coo_cols
    tech_shape,           \* self._tech_shape
    bio_coo_rows,         \* self._bio_coo_rows
    bio_coo_cols,         \* self._bio_coo_cols
    bio_shape,            \* self._bio_shape
    tech_matrix,          \* self.tech_matrix
    bio_matrix,           \* self.bio_matrix
    last,                 \* the last call: its name, arguments and outcome
    ncalls,               \* number of calls made on the object so far
    _temporalis_lca,      \* DynamicLCA._temporalis_lca
    _timeline,            \* DynamicLCA._timeline
    exchanges,            \* the exchanges of the Brightway project's databases
    built,                \* the Timeline built by the latest calculate() that built one
    returned              \* the Timeline built by the latest calculate() that returned

vars == <<solved, dicts, technosphere_matrix, biosphere_matrix,
          tech_coo_rows, tech_coo_cols, tech_shape,
          bio_coo_rows, bio_coo_cols, bio_shape,
          tech_matrix, bio_matrix, last, ncalls,
          _temporalis_lca, _timeline, exchanges, built, returned>>

coords == <<tech_coo_rows, tech_coo_cols, tech_shape,
            bio_coo_rows, bio_coo_cols, bio_shape>>

\* the state of the DynamicLCA object that wraps the LCA_matrix object, and of the
\* project it runs in
dynamic == <<_temporalis_lca, _timeline, exchanges, built, returned>>

-----------------------------------------------------------------------------
(* Bounds of the model.                                                    *)

\* largest amount a solved matrix or a report holds (amounts are 1..MaxVal)
MaxVal == 2
\* largest number of stored cells of a solved matrix (SpecBuild)
MaxNnz == 3
\* largest number of leaves (amounts) of one report
MaxLeaves == 2
\* largest number of calls made on one object
MaxCalls == 2

-----------------------------------------------------------------------------
(* Python values.                                                          *)

PyStr(s) == [t |-> "str", s |-> s, e |-> << >>]
PyTuple(e) == [t |-> "tuple", s |-> "", e |-> e]
IsStr(x) == x.t = "str"

Num(n) == [nan |-> FALSE, n |-> n]
NaN == [nan |-> TRUE, n |-> 0]
isnan(x) == x.nan
\* Python's x != y on floats: NaN differs from everything, itself included
FloatNe(x, y) == x.nan \/ y.nan \/ x.n # y.n
\* x + y on floats
FloatAdd(x, y) == IF x.nan \/ y.nan THEN NaN ELSE Num(x.n + y.n)

\* str(t) of a tuple of two strings, as Python prints it
StrOfTuple(e) == "('" \o e[1] \o "', '" \o e[2] \o "')"
\* str(x) of a str or of a tuple of two strings
str(x) == IF IsStr(x) THEN x.s ELSE StrOfTuple(x.e)

Min(a, b) == IF a <= b THEN a ELSE b

\* s[a:b] of a Python string (0-based, end excluded, clipped to the string)
Slice(s, a, b) ==
    IF a >= Min(b, Len(s)) THEN "" ELSE SubSeq(s, a + 1, Min(b, Len(s)))
\* s[a:]
SliceFrom(s, a) == Slice(s, a, Len(s))

-----------------------------------------------------------------------------
(* dict: insertion-ordered, keys unique.                                   *)

DictKeys(d) == [i \in 1..Len(d) |-> d[i].k]
DictValues(d) == [i \in 1..Len(d) |-> d[i].v]
KeySet(d) == {d[i].k : i \in 1..Len(d)}
HasKey(d, k) == \E i \in 1..Len(d) : d[i].k = k
DictGet(d, k) == d[CHOOSE i \in 1..Len(d) : d[i].k = k].v
\* a dict that drops a present key and stores it anew at the end
DictSetMoveToEnd(d, k, v) ==
    Append(SelectSeq(d, LAMBDA x : x.k # k), [k |-> k, v |-> v])

\* d[k] = v: a present key keeps its place, a new key is appended
DictSet(d, k, v) ==
    IF HasKey(d, k)
    THEN [i \in 1..Len(d) |-> IF d[i].k = k THEN [k |-> k, v |-> v] ELSE d[i]]
    ELSE Append(d, [k |-> k, v |-> v])

-----------------------------------------------------------------------------
(* scipy.sparse: CSR matrices, tocoo() and the coordinate constructor.     *)

RECURSIVE Ascending(_)
\* the elements of a finite set of integers in ascending order
Ascending(S) ==
    IF S = {} THEN << >>
    ELSE LET m == CHOOSE x \in S : \A y \in S : x <= y
         IN <<m>> \o Ascending(S \ {m})

RECURSIVE SumAt(_, _)
\* the sum of values[k] over the positions k of K
SumAt(values, K) ==
    IF K = {} THEN Num(0)
    ELSE LET k == CHOOSE x \in K : \A y \in K : x <= y
         IN IF K = {k} THEN values[k] ELSE FloatAdd(values[k], SumAt(values, K \ {k}))

\* M.tocoo().row: every stored entry's row, expanded from indptr
CooRow(M) ==
    [k \in 1..Len(M.indices) |->
        CHOOSE i \in 0..(M.shape[1] - 1) :
            M.indptr[i + 1] <= k - 1 /\ k - 1 < M.indptr[i + 2]]
\* M.tocoo().col
CooCol(M) == M.indices
\* M.tocoo().data
CooData(M) == M.data

RECURSIVE CsrRows(_, _, _, _, _)
\* rows i..nr-1 of the CSR form of the triples: per row the distinct columns in
\* ascending order, duplicates summed; acc is the form of rows 0..i-1
CsrRows(i, acc, rows, cols, values) ==
    IF i >= acc.shape[1] THEN acc
    ELSE LET js == Ascending({cols[k] : k \in {x \in 1..Len(rows) : rows[x] = i}})
             ds == [p \in 1..Len(js) |->
                      SumAt(values, {k \in 1..Len(rows) : rows[k] = i /\ cols[k] = js[p]})]
         IN CsrRows(i + 1,
                    [acc EXCEPT !.indptr = Append(@, Len(acc.indices) + Len(js)),
                                !.indices = @ \o js,
                                !.data = @ \o ds],
                    rows, cols, values)

\* scipy.sparse.csr_matrix((values, (rows, cols)), shape=shape); it raises
\* ValueError when the three arrays differ in length
csr_matrix(values, rows, cols, shape) ==
    IF Len(values) # Len(rows) \/ Len(rows) # Len(cols)
    THEN [error |-> "ValueError", matrix |-> << >>]
    ELSE [error |-> "none",
          matrix |-> CsrRows(0, [shape |-> shape, indptr |-> <<0>>,
                                 indices |-> << >>, data |-> << >>],
                             rows, cols, values)]

\* the value the matrix holds at (i, j); 0 at a cell it does not store
Cell(M, i, j) ==
    LET K == {k \in 1..Len(M.indices) : CooRow(M)[k] = i /\ M.indices[k] = j}
    IN IF K = {} THEN Num(0) ELSE M.data[CHOOSE k \in K : TRUE]

-----------------------------------------------------------------------------
(* The solve context __init__ reads: index -> key dictionaries.            *)

process_name == "T"
product_name == process_name \o "_product"

\* self.dicts.activity.reversed
ActivityKeys ==
    (0 :> PyTuple(<<process_name, "DryRes_P">>)) @@
    (1 :> PyTuple(<<process_name, "G">>)) @@
    (2 :> PyTuple(<<product_name, "C_to_L">>))
\* self.dicts.product.reversed
ProductKeys ==
    (0 :> PyTuple(<<"X", "e">>)) @@
    (1 :> PyTuple(<<product_name, "P_R">>)) @@
    (2 :> PyTuple(<<product_name, "G_R">>))
\* self.dicts.biosphere.reversed: one key per row, or the duplicate flows that
\* __init__ guards against (two rows, or three rows, of one flow)
BiosphereKeyChoices ==
    { (0 :> PyTuple(<<"biosphere3", "c">>)) @@ (1 :> PyTuple(<<"biosphere3", "d">>)) @@
      (2 :> PyTuple(<<"biosphere3", "f">>)),
      (0 :> PyTuple(<<"biosphere3", "c">>)) @@ (1 :> PyTuple(<<"biosphere3", "c">>)) @@
      (2 :> PyTuple(<<"biosphere3", "f">>)),
      (0 :> PyTuple(<<"biosphere3", "c">>)) @@ (1 :> PyTuple(<<"biosphere3", "c">>)) @@
      (2 :> PyTuple(<<"biosphere3", "c">>)) }

DictChoices ==
    {[product |-> ProductKeys, activity |-> ActivityKeys, biosphere |-> b] :
        b \in BiosphereKeyChoices}

TechShape == <<Cardinality(DOMAIN ProductKeys), Cardinality(DOMAIN ActivityKeys)>>
BioShape ==
    <<Cardinality(DOMAIN (CHOOSE b \in BiosphereKeyChoices : TRUE)),
      Cardinality(DOMAIN ActivityKeys)>>
CellsOf(shape) == (0..(shape[1] - 1)) \X (0..(shape[2] - 1))

\* the canonical CSR matrix of the given shape that stores amount f[c] at every
\* cell c of DOMAIN f (what the solver hands to __init__)
SolvedMatrix(shape, f) ==
    LET cs == Ascending({c[1] * shape[2] + c[2] : c \in DOMAIN f})
        rows == [k \in 1..Len(cs) |-> cs[k] \div shape[2]]
        cols == [k \in 1..Len(cs) |-> cs[k] % shape[2]]
        data == [k \in 1..Len(cs) |-> f[<<rows[k], cols[k]>>]]
    IN csr_matrix(data, rows, cols, shape).matrix

-----------------------------------------------------------------------------
(* LCA_matrix.__init__                                                     *)

RECURSIVE TechTable(_, _, _, _, _, _)
\* lines 54-58: the loop over zip(rows, cols, data) from position i on; D is self.dicts
TechTable(d, i, rows, cols, data, D) ==
    IF i > Min(Len(rows), Min(Len(cols), Len(data))) THEN d
    ELSE TechTable(DictSet(d, <<D.product[rows[i]], D.activity[cols[i]]>>, data[i]),
                   i + 1, rows, cols, data, D)

\* line 77: the key a repeated (bio_key, col_key) pair is stored under
SuffixedKey(bio_key, col_key) == <<PyStr(str(bio_key) \o " - 1"), col_key>>

\* a loop body without the duplicate guard: a repeated key is stored over the first
BioTableStepOverwrite(st, bio_key, col_key, v) ==
    [d |-> DictSet(st.d, <<bio_key, col_key>>, v), seen |-> st.seen \cup {<<bio_key, col_key>>}]

\* lines 71-77: one pass of the biosphere loop body; st is [d, seen]
BioTableStep(st, bio_key, col_key, v) ==
    LET key == <<bio_key, col_key>>
    IN IF key \notin st.seen
       THEN [d |-> DictSet(st.d, key, v), seen |-> st.seen \cup {key}]
       ELSE [d |-> DictSet(st.d, SuffixedKey(bio_key, col_key), v), seen |-> st.seen]

RECURSIVE BioTableLoop(_, _, _, _, _, _)
\* lines 68-77: the loop over zip(rows, cols, data) from position i on
BioTableLoop(st, i, rows, cols, data, D) ==
    IF i > Min(Len(rows), Min(Len(cols), Len(data))) THEN st
    ELSE BioTableLoop(BioTableStep(st, D.biosphere[rows[i]], D.activity[cols[i]], data[i]),
                      i + 1, rows, cols, data, D)

\* lines 66-77
BioTable(rows, cols, data, D) ==
    BioTableLoop([d |-> << >>, seen |-> {}], 1, rows, cols, data, D).d

\* the record of a call: steps are the passes of the applier's loops and failed the
\* position of the pass that raised (0 when none did); again tells that the call
\* repeats the call before it (same applier, same report); args and result are the
\* arguments and the return value of a mass-flow aggregator, context the LCA object
\* it was given, as the call leaves it
NoCall == [op |-> "__init__", outcome |-> "ok", report |-> << >>, values |-> << >>,
           steps |-> << >>, failed |-> 0, again |-> FALSE,
           args |-> << >>, result |-> << >>, context |-> << >>]

\* Python's None
None == [t |-> "None"]

\* the project's exchanges, in the order the databases yield them: the landfill
\* and the waste-to-energy activity with their emissions, and the scenario that
\* sends waste to both; amounts are whole numbers [n, d] with d = 1
Exchange(database, code, type, name, n) ==
    [database |-> database, code |-> code, type |-> type, name |-> name,
     amount |-> [n |-> n, d |-> 1], temporal_distribution |-> None]
InitialExchanges ==
    <<Exchange("LF", "Material_1", "biosphere", "Methane, fossil", MaxVal),
      Exchange("LF", "Material_1", "biosphere", "Carbon dioxide, non-fossil", 0 - MaxVal),
      Exchange("LF", "Material_1", "technosphere", "Methane, fossil", MaxVal),
      Exchange("WTE", "Material_1", "biosphere", "Carbon dioxide, fossil", MaxVal + 1),
      Exchange("WTE", "Material_1", "biosphere", "Methane, fossil", MaxVal),
      Exchange("scenario", "Scenario_1", "biosphere", "Methane, fossil", MaxVal)>>

\* DynamicLCA.__init__ over the object, in a project with the exchanges above
DynamicLCA ==
    /\ _temporalis_lca = None
    /\ _timeline = None
    /\ exchanges = InitialExchanges
    /\ built = None
    /\ returned = None

\* lines 28-77: the object built over the solved matrices T, B and the dictionaries D;
\* a DynamicLCA object is built over it at once
Construct(T, B, D) ==
    /\ solved = [technosphere |-> T, biosphere |-> B]
    /\ dicts = D
    /\ technosphere_matrix = T
    /\ biosphere_matrix = B
    /\ tech_coo_rows = CooRow(T)
    /\ tech_coo_cols = CooCol(T)
    /\ tech_shape = T.shape
    /\ tech_matrix = TechTable(<< >>, 1, CooRow(T), CooCol(T), CooData(T), D)
    /\ bio_coo_rows = CooRow(B)
    /\ bio_coo_cols = CooCol(B)
    /\ bio_shape = B.shape
    /\ bio_matrix = BioTable(CooRow(B), CooCol(B), CooData(B), D)
    /\ last = NoCall
    /\ ncalls = 0
    /\ DynamicLCA

-----------------------------------------------------------------------------
(* rebuild_technosphere_matrix / rebuild_biosphere_matrix                  *)

\* the value arrays a caller passes: the table's values in insertion order
\* (np.array(list(table.values()))), or that array one element short or long
ValueArrays(table) ==
    LET vs == DictValues(table)
    IN {vs, Append(vs, Num(1))} \cup (IF vs = << >> THEN {} ELSE {SubSeq(vs, 1, Len(vs) - 1)})

\* a rebuild that drops the working matrix before it constructs the new one
rebuild_technosphere_matrix_dropping(values) ==
    LET r == csr_matrix(values, tech_coo_rows, tech_coo_cols, tech_shape)
        none == csr_matrix(<< >>, << >>, << >>, tech_shape).matrix
    IN /\ ncalls < MaxCalls
       /\ technosphere_matrix' = IF r.error = "none" THEN r.matrix ELSE none
       /\ last' = [NoCall EXCEPT !.op = "rebuild_technosphere_matrix",
                                 !.outcome = IF r.error = "none" THEN "ok" ELSE r.error,
                                 !.values = values]
       /\ ncalls' = ncalls + 1
       /\ UNCHANGED <<dynamic, solved, dicts, biosphere_matrix, coords, tech_matrix, bio_matrix>>

\* lines 93-96
rebuild_technosphere_matrix(values) ==
    LET r == csr_matrix(values, tech_coo_rows, tech_coo_cols, tech_shape)
    IN /\ ncalls < MaxCalls
       /\ technosphere_matrix' = IF r.error = "none" THEN r.matrix ELSE technosphere_matrix
       /\ last' = [NoCall EXCEPT !.op = "rebuild_technosphere_matrix",
                                 !.outcome = IF r.error = "none" THEN "ok" ELSE r.error,
                                 !.values = values]
       /\ ncalls' = ncalls + 1
       /\ UNCHANGED <<dynamic, solved, dicts, biosphere_matrix, coords, tech_matrix, bio_matrix>>

\* a biosphere rebuild that assigns its result to self.technosphere_matrix
rebuild_biosphere_matrix_into_technosphere(values) ==
    LET r == csr_matrix(values, bio_coo_rows, bio_coo_cols, bio_shape)
    IN /\ ncalls < MaxCalls
       /\ technosphere_matrix' = IF r.error = "none" THEN r.matrix ELSE technosphere_matrix
       /\ last' = [NoCall EXCEPT !.op = "rebuild_biosphere_matrix",
                                 !.outcome = IF r.error = "none" THEN "ok" ELSE r.error,
                                 !.values = values]
       /\ ncalls' = ncalls + 1
       /\ UNCHANGED <<dynamic, solved, dicts, biosphere_matrix, coords, tech_matrix, bio_matrix>>

\* lines 108-111
rebuild_biosphere_matrix(values) ==
    LET r == csr_matrix(values, bio_coo_rows, bio_coo_cols, bio_shape)
    IN /\ ncalls < MaxCalls
       /\ biosphere_matrix' = IF r.error = "none" THEN r.matrix ELSE biosphere_matrix
       /\ last' = [NoCall EXCEPT !.op = "rebuild_biosphere_matrix",
                                 !.outcome = IF r.error = "none" THEN "ok" ELSE r.error,
                                 !.values = values]
       /\ ncalls' = ncalls + 1
       /\ UNCHANGED <<dynamic, solved, dicts, technosphere_matrix, coords, tech_matrix, bio_matrix>>

RebuildTech == \E values \in ValueArrays(tech_matrix) : rebuild_technosphere_matrix(values)
RebuildBio == \E values \in ValueArrays(bio_matrix) : rebuild_biosphere_matrix(values)

-----------------------------------------------------------------------------
(* SpecBuild: construction over every small solved context, then rebuilds. *)

Amounts == {Num(n) : n \in 1..MaxVal}

\* the solved matrices of a shape with at most n stored cells
SolvedMatrices(shape, n) ==
    UNION {{SolvedMatrix(shape, f) : f \in [S -> Amounts]} :
              S \in {X \in SUBSET CellsOf(shape) : Cardinality(X) <= n}}

\* the two tables are built by separate loops over separate matrices: the contexts
\* explored store cells in one of the two matrices and leave the other one empty
InitBuild ==
    \/ \E T \in SolvedMatrices(TechShape, MaxNnz), D \in DictChoices :
          Construct(T, SolvedMatrix(BioShape, << >>), D)
    \/ \E B \in SolvedMatrices(BioShape, MaxNnz), D \in DictChoices :
          Construct(SolvedMatrix(TechShape, << >>), B, D)

NextBuild == RebuildTech \/ RebuildBio

SpecBuild == InitBuild /\ [][NextBuild]_vars

-----------------------------------------------------------------------------
(* Reports (swolfpy_processmodels.ProcessModel.report()).                  *)
(*   tag           report_dict["process name"][1]                          *)
(*   Technosphere, Waste, Biosphere                                        *)
(*                 dict material -> dict counterpart key -> amount         *)
(*   hasLCI        "LCI" in report_dict.keys()                             *)
(*   LCI           dict y -> dict m -> dict flow key -> amount             *)

RECURSIVE Concat(_)
\* the concatenation of a sequence of sequences
Concat(ss) == IF ss = << >> THEN << >> ELSE Head(ss) \o Concat(Tail(ss))

\* x in n, for a str x and n a tuple (membership) or a str (substring)
In(x, n) ==
    IF IsStr(n)
    THEN \E a \in 0..Len(n.s) : Slice(n.s, a, a + Len(x)) = x
    ELSE \E i \in 1..Len(n.e) : n.e[i] = x

NoKey == <<PyStr(""), PyStr("")>>

\* one pass of an applier's innermost loop body: the error raised while the
\* target key is derived ("none" when it is derived), the target key, the amount
Step(grp, material, err, key, value) ==
    [grp |-> grp, material |-> material, err |-> err, key |-> key, value |-> value]

\* lines 134-135, 137: the target keys of "Technosphere", in loop order
TechnosphereSteps(report) ==
    Concat([i \in 1..Len(report.Technosphere) |->
        LET material == report.Technosphere[i].k
            value == report.Technosphere[i].v
        IN [j \in 1..Len(value) |->
              Step("Technosphere", material, "none",
                   <<value[j].k, PyTuple(<<process_name, material>>)>>, value[j].v)]])

Unbound == [bound |-> FALSE, s |-> ""]

\* a prefix branch that drops the prefix and keeps the separator after it
StripPrefixKeepSeparator(tag, material, m_) ==
    IF tag = "Transfer_Station"
    THEN IF Slice(material, 0, 6) = "DryRes" \/ Slice(material, 0, 6) = "WetRes"
         THEN [bound |-> TRUE, s |-> SliceFrom(material, 6)]
         ELSE IF Slice(material, 0, 3) = "ORG" \/ Slice(material, 0, 3) = "REC"
              THEN [bound |-> TRUE, s |-> SliceFrom(material, 3)]
              ELSE m_
    ELSE [bound |-> TRUE, s |-> material]

\* lines 156-162: the local material_ after the prefix branch; m_ is its state before
StripPrefix(tag, material, m_) ==
    IF tag = "Transfer_Station"
    THEN IF Slice(material, 0, 6) = "DryRes" \/ Slice(material, 0, 6) = "WetRes"
         THEN [bound |-> TRUE, s |-> SliceFrom(material, 7)]
         ELSE IF Slice(material, 0, 3) = "ORG" \/ Slice(material, 0, 3) = "REC"
              THEN [bound |-> TRUE, s |-> SliceFrom(material, 4)]
              ELSE m_
    ELSE [bound |-> TRUE, s |-> material]

\* lines 156-163: one "Waste" entry: material_ is read (UnboundLocalError when no
\* branch has assigned it yet), then joined to key2 (TypeError unless key2 is a str)
WasteStep(tag, material, key2, value2, m_) ==
    LET now == StripPrefix(tag, material, m_)
    IN IF ~now.bound THEN Step("Waste", material, "UnboundLocalError", NoKey, value2)
       ELSE IF ~IsStr(key2) THEN Step("Waste", material, "TypeError", NoKey, value2)
       ELSE Step("Waste", material, "none",
                 <<PyTuple(<<product_name, now.s \o "_" \o key2.s>>),
                   PyTuple(<<process_name, material>>)>>, value2)

\* lines 184-191 and 270-277: the leaves of "LCI" whose flow key n has
\* ("biosphere3" in n) = bio, with their transport-link target keys, in loop order
LCISteps(report, bio) ==
    IF ~report.hasLCI THEN << >>
    ELSE Concat([a \in 1..Len(report.LCI) |->
           LET y == report.LCI[a].k
           IN Concat([b \in 1..Len(report.LCI[a].v) |->
                LET m == report.LCI[a].v[b].k
                    leaves == report.LCI[a].v[b].v
                    wanted == {c \in 1..Len(leaves) : In("biosphere3", leaves[c].k) = bio}
                    cs == Ascending(wanted)
                IN [c \in 1..Len(cs) |->
                      Step("LCI", y \o "_to_" \o m, "none",
                           <<leaves[cs[c]].k, PyTuple(<<product_name, y \o "_" \o "to" \o "_" \o m>>)>>,
                           leaves[cs[c]].v)]])])

RECURSIVE WasteLoop(_, _, _)
\* lines 153-238: the "Waste" loop from material i on; the "LCI" block sits inside
\* the loop over the materials, so it runs once after every material
WasteLoop(report, i, m_) ==
    IF i > Len(report.Waste) THEN << >>
    ELSE LET material == report.Waste[i].k
             value == report.Waste[i].v
             after == IF value = << >> THEN m_ ELSE StripPrefix(report.tag, material, m_)
         IN [j \in 1..Len(value) |->
                WasteStep(report.tag, material, value[j].k, value[j].v, m_)]
            \o LCISteps(report, FALSE)
            \o WasteLoop(report, i + 1, after)

\* lines 134-238: every pass of update_techmatrix's loops, in the order they run
TechSteps(report) == TechnosphereSteps(report) \o WasteLoop(report, 1, Unbound)

\* lines 257-324: every pass of update_biomatrix's loops, in the order they run;
\* the "LCI" block sits inside the loop over the "Biosphere" materials
BioSteps(report) ==
    Concat([i \in 1..Len(report.Biosphere) |->
        LET material == report.Biosphere[i].k
            value == report.Biosphere[i].v
        IN [j \in 1..Len(value) |->
              Step("Biosphere", material, "none",
                   <<value[j].k, PyTuple(<<process_name, material>>)>>, value[j].v)]
           \o LCISteps(report, TRUE)])

\* an entry applied without the membership test: a missing key is stored as a new one
ApplyEntryInsert(table, st) ==
    IF st.err # "none" THEN [table |-> table, outcome |-> st.err]
    ELSE IF isnan(st.value) THEN [table |-> table, outcome |-> "ValueError"]
    ELSE [table |-> DictSet(table, st.key, st.value), outcome |-> "ok"]

\* an entry applied by adding the amount to the one held
ApplyEntryAccumulate(table, st) ==
    IF st.err # "none" THEN [table |-> table, outcome |-> st.err]
    ELSE IF isnan(st.value) THEN [table |-> table, outcome |-> "ValueError"]
    ELSE IF ~HasKey(table, st.key) THEN [table |-> table, outcome |-> "KeyError"]
    ELSE [table |-> DictSet(table, st.key, FloatAdd(DictGet(table, st.key), st.value)),
          outcome |-> "ok"]

\* an entry that is validated and never stored
ApplyEntryNoStore(table, st) ==
    IF st.err # "none" THEN [table |-> table, outcome |-> st.err]
    ELSE IF isnan(st.value) THEN [table |-> table, outcome |-> "ValueError"]
    ELSE IF ~HasKey(table, st.key) THEN [table |-> table, outcome |-> "KeyError"]
    ELSE [table |-> table, outcome |-> "ok"]

\* an entry applied without the NaN test
ApplyEntryNoNanTest(table, st) ==
    IF st.err # "none" THEN [table |-> table, outcome |-> st.err]
    ELSE IF ~HasKey(table, st.key) THEN [table |-> table, outcome |-> "KeyError"]
    ELSE [table |-> DictSet(table, st.key, st.value), outcome |-> "ok"]

\* lines 136-151 (and 164-180, 188-238, 259-267, 274-324): one derived entry applied
\* to the table: ValueError on NaN, KeyError on a key the table lacks (raised by the
\* explicit test, or by the lookup bio_matrix[key] of line 260), else the amount is
\* stored when it differs from the one held
ApplyEntry(table, st) ==
    IF st.err # "none" THEN [table |-> table, outcome |-> st.err]
    ELSE IF isnan(st.value) THEN [table |-> table, outcome |-> "ValueError"]
    ELSE IF ~HasKey(table, st.key) THEN [table |-> table, outcome |-> "KeyError"]
    ELSE IF FloatNe(DictGet(table, st.key), st.value)
         THEN [table |-> DictSet(table, st.key, st.value), outcome |-> "ok"]
         ELSE [table |-> table, outcome |-> "ok"]

RECURSIVE RunFrom(_, _, _)
\* the passes from position i on, up to the first one that raises
RunFrom(table, steps, i) ==
    IF i > Len(steps) THEN [table |-> table, outcome |-> "ok", failed |-> 0]
    ELSE LET r == ApplyEntry(table, steps[i])
         IN IF r.outcome # "ok"
            THEN [table |-> r.table, outcome |-> r.outcome, failed |-> i]
            ELSE RunFrom(r.table, steps, i + 1)

\* an applier that restores the table it was given when a pass raises
RunStepsAtomic(table, steps) ==
    LET r == RunFrom(table, steps, 1)
    IN IF r.outcome = "ok" THEN r ELSE [r EXCEPT !.table = table]

\* the applier's loops over the table passed in: the table is changed in place,
\* so what the passes before a raise stored stays stored
RunSteps(table, steps) == RunFrom(table, steps, 1)

\* lines 117-238
update_techmatrix(report) ==
    LET steps == TechSteps(report)
        r == RunSteps(tech_matrix, steps)
    IN /\ ncalls < MaxCalls
       /\ tech_matrix' = r.table
       /\ last' = [NoCall EXCEPT !.op = "update_techmatrix", !.outcome = r.outcome,
                                 !.report = report, !.steps = steps, !.failed = r.failed,
                                 !.again = (last.op = "update_techmatrix" /\ last.report = report)]
       /\ ncalls' = ncalls + 1
       /\ UNCHANGED <<dynamic, solved, dicts, technosphere_matrix, biosphere_matrix, coords,
                      bio_matrix>>

\* lines 240-324
update_biomatrix(report) ==
    LET steps == BioSteps(report)
        r == RunSteps(bio_matrix, steps)
    IN /\ ncalls < MaxCalls
       /\ bio_matrix' = r.table
       /\ last' = [NoCall EXCEPT !.op = "update_biomatrix", !.outcome = r.outcome,
                                 !.report = report, !.steps = steps, !.failed = r.failed,
                                 !.again = (last.op = "update_biomatrix" /\ last.report = report)]
       /\ ncalls' = ncalls + 1
       /\ UNCHANGED <<dynamic, solved, dicts, technosphere_matrix, biosphere_matrix, coords,
                      tech_matrix>>

-----------------------------------------------------------------------------
(* The reports the appliers are called with.                               *)

Materials == {"DryRes_P", "G"}
\* the amounts of a report: NaN, or a number (the largest one, which some stored
\* cells hold already and others do not)
ReportAmounts == {Num(MaxVal), NaN}
\* counterpart keys of "Technosphere": product keys
TechCounterparts == {PyTuple(<<"X", "e">>)}
\* counterpart keys of "Waste": the waste-stream name, or a (namespace, code) tuple
WasteCounterparts == {PyStr("R"), PyTuple(<<"O", "R">>)}
\* counterpart keys of "Biosphere": biosphere flow keys
BioCounterparts == {PyTuple(<<"biosphere3", "d">>)}
\* flow keys of the "LCI" leaves, under LCI["C"]["L"]
LCIFlowKeys == {PyTuple(<<"X", "e">>), PyTuple(<<"biosphere3", "c">>)}
Tags == {"Transfer_Station", "LF"}

Leaf(m, k, v) == [m |-> m, k |-> k, v |-> v]
LeavesOf(Ms, Ks) == {Leaf(m, k, v) : m \in Ms, k \in Ks, v \in ReportAmounts}
LeafSeqs(L, n) == UNION {[1..k -> L] : k \in 0..n}

\* g[m][k] = v on a dict of dicts, creating g[m] when it is missing
NestedSet(g, m, k, v) ==
    IF HasKey(g, m) THEN DictSet(g, m, DictSet(DictGet(g, m), k, v))
    ELSE DictSet(g, m, <<[k |-> k, v |-> v]>>)

RECURSIVE GroupingOf(_, _, _)
\* the dict of dicts the leaves ls[i..] build when stored in this order into g
GroupingOf(g, ls, i) ==
    IF i > Len(ls) THEN g
    ELSE GroupingOf(NestedSet(g, ls[i].m, ls[i].k, ls[i].v), ls, i + 1)

RECURSIVE LeafCount(_)
\* the number of amounts of a dict of dicts
LeafCount(g) == IF g = << >> THEN 0 ELSE Len(Head(g).v) + LeafCount(Tail(g))

\* the groupings of at most n leaves drawn from L
Groupings(L, n) == {GroupingOf(<< >>, ls, 1) : ls \in LeafSeqs(L, n)}

\* the "LCI" parts of at most n leaves: absent, or {"C": {"L": {flow key: amount}}}
LCIParts(n) ==
    {[hasLCI |-> FALSE, LCI |-> << >>]} \cup
    {[hasLCI |-> TRUE,
      LCI |-> IF g = << >> THEN << >> ELSE <<[k |-> "C", v |-> g]>>] :
        g \in Groupings(LeavesOf({"L"}, LCIFlowKeys), n)}

Report(tag, t, w, b, l) ==
    [tag |-> tag, Technosphere |-> t, Waste |-> w, Biosphere |-> b,
     hasLCI |-> l.hasLCI, LCI |-> l.LCI]

\* the reports update_techmatrix is called with: at most MaxLeaves amounts
TechReports ==
    UNION {UNION {{Report(tag, t, w, << >>, l) :
                      tag \in Tags, l \in LCIParts(MaxLeaves - LeafCount(t) - LeafCount(w))} :
                  w \in Groupings(LeavesOf(Materials, WasteCounterparts),
                                  MaxLeaves - LeafCount(t))} :
           t \in Groupings(LeavesOf(Materials, TechCounterparts), MaxLeaves)}

\* the reports update_biomatrix is called with: at most MaxLeaves amounts
BioReports ==
    UNION {{Report(tag, << >>, << >>, b, l) :
               tag \in Tags, l \in LCIParts(MaxLeaves - LeafCount(b))} :
           b \in Groupings(LeavesOf(Materials, BioCounterparts), MaxLeaves)}

\* reports whose "Technosphere" entry names a product of the process itself, the one
\* a "Waste" entry of the same material derives; their amounts are any of 1..MaxVal
OverlapReports ==
    LET t == {<< >>} \cup {GroupingOf(<< >>, <<Leaf("G", PyTuple(<<product_name, "G_R">>), v)>>, 1) :
                              v \in Amounts}
        w == {<< >>} \cup {GroupingOf(<< >>, <<Leaf(m, PyStr("R"), v)>>, 1) :
                              m \in Materials, v \in Amounts}
    IN {Report(tag, a, b, << >>, [hasLCI |-> FALSE, LCI |-> << >>]) :
           tag \in Tags, a \in t, b \in w}

UpdateTech == \E report \in TechReports \cup OverlapReports : update_techmatrix(report)
UpdateBio == \E report \in BioReports : update_biomatrix(report)

-----------------------------------------------------------------------------
(* Spec: an object built over fully stored matrices, then any calls.       *)

\* the solved matrix of a shape that stores an amount at every cell, the amounts
\* 1..MaxVal taken in turn along the anti-diagonals
FullMatrix(shape) ==
    SolvedMatrix(shape, [c \in CellsOf(shape) |-> Num(((c[1] + c[2]) % MaxVal) + 1)])

Init == \E D \in DictChoices : Construct(FullMatrix(TechShape), FullMatrix(BioShape), D)

Next == UpdateTech \/ UpdateBio \/ RebuildTech \/ RebuildBio

Spec == Init /\ [][Next]_vars

-----------------------------------------------------------------------------
(* get_mass_flow / get_mass_flow_comp                                      *)
(*   LCA    [activity, supply_array]: LCA.dicts.activity, a dict from      *)
(*          activity key to matrix index, and LCA.supply_array             *)
(*   db     the unit of every node, as bd.get_node(database, code) reads it *)

\* x * y on floats
FloatMul(x, y) == IF x.nan \/ y.nan THEN NaN ELSE Num(x.n * y.n)

RECURSIVE SplitFrom(_, _, _, _)
\* the pieces of s from position i on, cur being the piece read so far
SplitFrom(s, sep, i, cur) ==
    IF i > Len(s) THEN <<cur>>
    ELSE IF SubSeq(s, i, i) = sep
         THEN <<cur>> \o SplitFrom(s, sep, i + 1, "")
         ELSE SplitFrom(s, sep, i + 1, cur \o SubSeq(s, i, i))
\* s.split(sep) for a separator of one character
split(s, sep) == SplitFrom(s, sep, 1, "")

IsDigit(c) == \E d \in 0..9 : SubSeq("0123456789", d + 1, d + 1) = c
DigitValue(c) == CHOOSE d \in 0..9 : SubSeq("0123456789", d + 1, d + 1) = c
RECURSIVE DecimalValue(_, _, _)
\* the number the digits s[i..] continue, acc being the number read so far
DecimalValue(s, i, acc) ==
    IF i > Len(s) THEN acc
    ELSE DecimalValue(s, i + 1, acc * 10 + DigitValue(SubSeq(s, i, i)))
\* float(s) for a string of digits or a word that is no number: ValueError for
\* the empty string and for a string with a character that is not a digit
float(s) ==
    IF s = "" \/ \E i \in 1..Len(s) : ~IsDigit(SubSeq(s, i, i))
    THEN [error |-> "ValueError", value |-> NaN]
    ELSE [error |-> "none", value |-> Num(DecimalValue(s, 1, 0))]

\* lines 345-349 and 376-380: the amount one activity adds: its supply, times
\* float(unit[0]) when the unit splits into more than one piece
Contribution(LCA, db, i) ==
    LET key == LCA.activity[i].k
        unit == split(db[key], " ")
        x == LCA.supply_array[LCA.activity[i].v + 1]
    IN IF Len(unit) > 1
       THEN LET f == float(unit[1])
            IN IF f.error # "none" THEN [error |-> f.error, value |-> NaN]
               ELSE [error |-> "none", value |-> FloatMul(x, f.value)]
       ELSE [error |-> "none", value |-> x]

RECURSIVE MassLoop(_, _, _, _, _)
\* lines 343-349: the loop over LCA.dicts.activity from position i on
MassLoop(LCA, process, db, i, mass) ==
    IF i > Len(LCA.activity) THEN [outcome |-> "ok", result |-> mass]
    ELSE IF process # LCA.activity[i].k.e[1]
         THEN MassLoop(LCA, process, db, i + 1, mass)
         ELSE LET c == Contribution(LCA, db, i)
              IN IF c.error # "none" THEN [outcome |-> c.error, result |-> << >>]
                 ELSE MassLoop(LCA, process, db, i + 1, FloatAdd(mass, c.value))

\* get_mass_flow, were it to accumulate into the supply array it reads: the
\* entries of the counted activities are left holding the running total
get_mass_flow_in_place(LCA, process, db) ==
    LET r == MassLoop(LCA, process, db, 1, Num(0))
        counted == {LCA.activity[i].v + 1 : i \in {j \in 1..Len(LCA.activity) :
                                                      process = LCA.activity[j].k.e[1]}}
        after == [p \in 1..Len(LCA.supply_array) |->
                     IF p \in counted /\ r.outcome = "ok" THEN r.result
                     ELSE LCA.supply_array[p]]
    IN /\ ncalls < MaxCalls
       /\ last' = [NoCall EXCEPT !.op = "get_mass_flow", !.outcome = r.outcome,
                                 !.args = [LCA |-> LCA, process |-> process, db |-> db,
                                           index |-> << >>],
                                 !.result = r.result,
                                 !.context = [LCA EXCEPT !.supply_array = after]]
       /\ ncalls' = ncalls + 1
       /\ UNCHANGED <<dynamic, solved, dicts, technosphere_matrix, biosphere_matrix, coords,
                      tech_matrix, bio_matrix>>

\* lines 326-350: mass is a number of the call's own, LCA is only read
get_mass_flow(LCA, process, db) ==
    LET r == MassLoop(LCA, process, db, 1, Num(0))
    IN /\ ncalls < MaxCalls
       /\ last' = [NoCall EXCEPT !.op = "get_mass_flow", !.outcome = r.outcome,
                                 !.args = [LCA |-> LCA, process |-> process, db |-> db,
                                           index |-> << >>],
                                 !.result = r.result, !.context = LCA]
       /\ ncalls' = ncalls + 1
       /\ UNCHANGED <<dynamic, solved, dicts, technosphere_matrix, biosphere_matrix, coords,
                      tech_matrix, bio_matrix>>

\* pd.Series(np.zeros(len(index)), index=index), as [k |-> label, v |-> amount]
ZeroSeries(index) == [p \in 1..Len(index) |-> [k |-> index[p], v |-> Num(0)]]
\* mass[j] += x, for a label j of the series
SeriesAdd(mass, j, x) ==
    [p \in 1..Len(mass) |-> IF mass[p].k = j THEN [k |-> j, v |-> FloatAdd(mass[p].v, x)]
                            ELSE mass[p]]

RECURSIVE IndexLoop(_, _, _, _, _, _)
\* lines 374-380: the loop over index from position p on, for the activity at i
IndexLoop(LCA, db, index, i, p, mass) ==
    IF p > Len(index) THEN [outcome |-> "ok", result |-> mass]
    ELSE IF index[p] # LCA.activity[i].k.e[2]
         THEN IndexLoop(LCA, db, index, i, p + 1, mass)
         ELSE LET c == Contribution(LCA, db, i)
              IN IF c.error # "none" THEN [outcome |-> c.error, result |-> << >>]
                 ELSE IndexLoop(LCA, db, index, i, p + 1, SeriesAdd(mass, index[p], c.value))

RECURSIVE CompLoop(_, _, _, _, _, _)
\* lines 372-380: the loop over LCA.dicts.activity from position i on
CompLoop(LCA, process, db, index, i, mass) ==
    IF i > Len(LCA.activity) THEN [outcome |-> "ok", result |-> mass]
    ELSE IF process # LCA.activity[i].k.e[1]
         THEN CompLoop(LCA, process, db, index, i + 1, mass)
         ELSE LET r == IndexLoop(LCA, db, index, i, 1, mass)
              IN IF r.outcome # "ok" THEN r
                 ELSE CompLoop(LCA, process, db, index, i + 1, r.result)

\* lines 352-381: mass is a new series over a new array of zeros, LCA is only read
get_mass_flow_comp(LCA, process, index, db) ==
    LET r == CompLoop(LCA, process, db, index, 1, ZeroSeries(index))
    IN /\ ncalls < MaxCalls
       /\ last' = [NoCall EXCEPT !.op = "get_mass_flow_comp", !.outcome = r.outcome,
                                 !.args = [LCA |-> LCA, process |-> process, db |-> db,
                                           index |-> index],
                                 !.result = r.result, !.context = LCA]
       /\ ncalls' = ncalls + 1
       /\ UNCHANGED <<dynamic, solved, dicts, technosphere_matrix, biosphere_matrix, coords,
                      tech_matrix, bio_matrix>>

\* the solved contexts the aggregators are called with: three activities, two of
\* the namespace "T" and one of the namespace "U", at matrix indices 2, 0, 1
MassActivityKeys ==
    <<PyTuple(<<"T", "a">>), PyTuple(<<"T", "b">>), PyTuple(<<"U", "a">>)>>
MassActivityDict ==
    <<[k |-> MassActivityKeys[1], v |-> 2], [k |-> MassActivityKeys[2], v |-> 0],
      [k |-> MassActivityKeys[3], v |-> 1]>>
\* LCA.supply_array: any amounts for the two activities of "T", the largest
\* amount for the activity of "U"
SupplyArrays == {<<x, Num(MaxVal), y>> : x \in Amounts, y \in Amounts}
LCAs == {[activity |-> MassActivityDict, supply_array |-> sa] : sa \in SupplyArrays}
\* unit strings: no space, a numeric multiplier and a space, a space and no number
Units == {"Mg", "1000 kg", "kilowatt hour"}
UnitTables == [{MassActivityKeys[i] : i \in 1..Len(MassActivityKeys)} -> Units]
Processes == {"T", "U"}
\* index: codes in an order of their own, one of them the code of no activity
Indexes == {<<"b", "a">>, <<"a", "c">>}

GetMassFlow ==
    \E LCA \in LCAs, process \in Processes, db \in UnitTables :
        get_mass_flow(LCA, process, db)
GetMassFlowComp ==
    \E LCA \in LCAs, process \in Processes, index \in Indexes, db \in UnitTables :
        get_mass_flow_comp(LCA, process, index, db)

\* SpecMass: the aggregators, called on any of the solved contexts
InitMass ==
    Construct(FullMatrix(TechShape), FullMatrix(BioShape),
              CHOOSE D \in DictChoices : \A i, j \in DOMAIN D.biosphere :
                  D.biosphere[i] = D.biosphere[j] => i = j)

NextMass == GetMassFlow \/ GetMassFlowComp

SpecMass == InitMass /\ [][NextMass]_vars

-----------------------------------------------------------------------------
(* DynamicLCA (src/swolfpy/dynamic_lca.py): temporal distributions.        *)
(*   amounts are rationals [n, d] in lowest terms with d > 0; [0, 0] is    *)
(*   the float nan                                                         *)
(*   TemporalDistribution  [date, amount]: the year offsets and the        *)
(*                         amounts, two arrays of one length               *)

\* longest decay period and largest number of steps of a profile
MaxPeriod == 2
MaxSteps == 3

Abs(n) == IF n < 0 THEN 0 - n ELSE n
RECURSIVE GCD(_, _)
GCD(a, b) == IF b = 0 THEN a ELSE GCD(b, a % b)
\* n / d in lowest terms, for d # 0
Rat(n, d) ==
    LET g == GCD(Abs(n), Abs(d))
        sign == IF (n < 0) = (d < 0) THEN 1 ELSE 0 - 1
    IN [n |-> sign * (Abs(n) \div g), d |-> Abs(d) \div g]
RatNaN == [n |-> 0, d |-> 0]
RatIsNaN(x) == x.d = 0
RatAdd(x, y) == IF RatIsNaN(x) \/ RatIsNaN(y) THEN RatNaN
                ELSE Rat(x.n * y.d + y.n * x.d, x.d * y.d)
RatMul(x, y) == IF RatIsNaN(x) \/ RatIsNaN(y) THEN RatNaN ELSE Rat(x.n * y.n, x.d * y.d)
\* x / y for y # 0
RatDiv(x, y) == IF RatIsNaN(x) \/ RatIsNaN(y) THEN RatNaN ELSE Rat(x.n * y.d, x.d * y.n)
RatNeg(x) == [n |-> 0 - x.n, d |-> x.d]
\* x <= y, false when either is nan
RatLe(x, y) == ~RatIsNaN(x) /\ ~RatIsNaN(y) /\ x.n * y.d <= y.n * x.d
RECURSIVE RatSumFrom(_, _)
RatSumFrom(a, i) == IF i > Len(a) THEN Rat(0, 1) ELSE RatAdd(a[i], RatSumFrom(a, i + 1))
\* a.sum() of an array of amounts
RatSum(a) == RatSumFrom(a, 1)

\* the decay constants of the model: the multiples j * ln 2 of ln 2, with ln 2
\* written 7/10
Ln2 == Rat(7, 10)
RECURSIVE Pow2(_)
Pow2(m) == IF m = 0 THEN 1 ELSE 2 * Pow2(m - 1)
\* np.exp(x) for x = m * ln 2: 2^m
exp(x) ==
    LET m == (x.n * Ln2.d) \div (x.d * Ln2.n)
    IN IF m >= 0 THEN Rat(Pow2(m), 1) ELSE Rat(1, Pow2(0 - m))

TemporalDistribution(date, amount) ==
    [t |-> "TemporalDistribution", date |-> date, amount |-> amount]

\* the whole amount, a year late
ImmediateNextYear(amount) == TemporalDistribution(<<1>>, <<amount>>)

\* lines 198-202
Immediate(amount) == TemporalDistribution(<<0>>, <<amount>>)

\* np.arange(0, stop, dtype=int)
arange(stop) == [i \in 1..(IF stop > 0 THEN stop ELSE 0) |-> i - 1]

\* the decay curve scaled by the amount, without the division by its sum
ExponentialDecayRaw(amount, k, period) ==
    LET years == arange(period + 1)
    IN TemporalDistribution(years,
           [i \in 1..Len(years) |->
               RatMul(amount, RatMul(k, exp(RatMul(RatNeg(k), Rat(years[i], 1)))))])

\* lines 204-214: amount / raw_amounts.sum() is inf for an empty array and an
\* amount that is not 0, and nan for a sum of 0 otherwise; inf times the empty
\* array is the empty array
ExponentialDecay(amount, k, period) ==
    LET years == arange(period + 1)
        raw_amounts == [i \in 1..Len(years) |->
                           RatMul(k, exp(RatMul(RatNeg(k), Rat(years[i], 1))))]
        total == RatSum(raw_amounts)
        normalized_amounts ==
            [i \in 1..Len(years) |->
                IF total.n = 0 THEN RatNaN
                ELSE RatMul(RatDiv(amount, total), raw_amounts[i])]
    IN TemporalDistribution(years, normalized_amounts)

\* np.linspace(start, end, steps, dtype=int) for steps >= 0: the evenly spaced
\* numbers, rounded down
linspace(start, end, steps) ==
    [i \in 1..steps |->
        IF steps = 1 THEN start
        ELSE (start * (steps - 1) + (i - 1) * (end - start)) \div (steps - 1)]

\* every point carrying the whole amount
UniformWhole(amount, start, end, steps) ==
    TemporalDistribution(linspace(start, end, steps), [i \in 1..steps |-> amount])

\* lines 216-223, for steps # 0
Uniform(amount, start, end, steps) ==
    TemporalDistribution(linspace(start, end, steps),
                         [i \in 1..steps |-> RatDiv(amount, Rat(steps, 1))])

\* lines 180-225: the distribution, or the exception raised; params is a dict
_build_temporal_distribution(amount, kind, params) ==
    IF kind = "immediate" THEN [error |-> "none", value |-> Immediate(amount)]
    ELSE IF kind = "exponential_decay"
    THEN IF ~HasKey(params, "k") \/ ~HasKey(params, "period")
         THEN [error |-> "KeyError", value |-> None]
         ELSE [error |-> "none",
               value |-> ExponentialDecay(amount, DictGet(params, "k"),
                                          DictGet(params, "period"))]
    ELSE IF kind = "uniform"
    THEN IF ~HasKey(params, "end") \/ ~HasKey(params, "steps")
         THEN [error |-> "KeyError", value |-> None]
         ELSE IF DictGet(params, "steps") = 0
         THEN [error |-> "ZeroDivisionError", value |-> None]
         ELSE [error |-> "none",
               value |-> Uniform(amount,
                                 IF HasKey(params, "start") THEN DictGet(params, "start")
                                 ELSE 0,
                                 DictGet(params, "end"), DictGet(params, "steps"))]
    ELSE [error |-> "ValueError", value |-> None]

\* a call of the builder on the object
BuildTemporalDistribution(amount, kind, params) ==
    LET r == _build_temporal_distribution(amount, kind, params)
    IN /\ ncalls < MaxCalls
       /\ last' = [NoCall EXCEPT !.op = "_build_temporal_distribution",
                                 !.outcome = IF r.error = "none" THEN "ok" ELSE r.error,
                                 !.args = [amount |-> amount, kind |-> kind,
                                           params |-> params],
                                 !.result = r.value]
       /\ ncalls' = ncalls + 1
       /\ UNCHANGED <<dynamic, solved, dicts, technosphere_matrix, biosphere_matrix,
                      coords, tech_matrix, bio_matrix>>

\* the profiles the builder is called with
ProfileAmounts == {Rat(n, 1) : n \in (0 - MaxVal)..MaxVal}
DecayConstants == {RatMul(Rat(j, 1), Ln2) : j \in {0 - 1, 0, 1}}
Entry(k, v) == [k |-> k, v |-> v]
ExponentialParams ==
    {<<Entry("k", k), Entry("period", period)>> :
        k \in DecayConstants, period \in (0 - 1)..MaxPeriod}
UniformParams ==
    {<<Entry("start", start), Entry("end", start + MaxSteps), Entry("steps", steps)>> :
        start \in {0, 1}, steps \in 0..MaxSteps}
    \cup {<<Entry("end", MaxSteps), Entry("steps", steps)>> : steps \in 0..MaxSteps}
Kinds == {"immediate", "exponential_decay", "uniform", "step"}
ParamsOf(kind) ==
    IF kind = "exponential_decay" THEN ExponentialParams \cup {<<Entry("k", Ln2)>>}
    ELSE IF kind = "uniform" THEN UniformParams
    ELSE {<< >>}

BuildProfile ==
    \E amount \in ProfileAmounts, kind \in Kinds :
        \E params \in ParamsOf(kind) : BuildTemporalDistribution(amount, kind, params)

\* SpecProfile: the builder, called with any of the profiles
InitProfile == InitMass
NextProfile == BuildProfile
SpecProfile == InitProfile /\ [][NextProfile]_vars

-----------------------------------------------------------------------------
(* DynamicLCA: attach_temporal_distributions, calculate, get_timeline.     *)
(*   process_temporal_profiles  a dict from process name to a dict from    *)
(*                              flow name to a profile {kind, params}      *)
(*   TemporalisLCA              [id]: the object the call numbered id built *)
(*   Timeline                   [lca]: the timeline that TemporalisLCA     *)
(*                              object built                               *)
(*   a table                    [columns, rows], rows being records        *)

\* most rows that the characterization of a timeline yields
MaxRows == 2

\* bd.databases
databases == {"biosphere3", "LF", "WTE", "scenario"}

RECURSIVE ExchangeLoopAnyDatabase(_, _, _, _)
\* the loop over the biosphere exchanges of every database
ExchangeLoopAnyDatabase(exs, db, flow_profiles, j) ==
    IF j > Len(exs) THEN [error |-> "none", exchanges |-> exs]
    ELSE IF exs[j].type # "biosphere" \/ ~HasKey(flow_profiles, exs[j].name)
    THEN ExchangeLoopAnyDatabase(exs, db, flow_profiles, j + 1)
    ELSE LET profile == DictGet(flow_profiles, exs[j].name)
             td == _build_temporal_distribution(
                       exs[j].amount, DictGet(profile, "kind"),
                       IF HasKey(profile, "params") THEN DictGet(profile, "params")
                       ELSE << >>)
         IN IF ~HasKey(profile, "kind") THEN [error |-> "KeyError", exchanges |-> exs]
            ELSE IF td.error # "none" THEN [error |-> td.error, exchanges |-> exs]
            ELSE ExchangeLoopAnyDatabase([exs EXCEPT ![j].temporal_distribution = td.value],
                                         db, flow_profiles, j + 1)

RECURSIVE ExchangeLoop(_, _, _, _)
\* lines 164-178: the loop over the biosphere exchanges of the activities of the
\* database db, from position j on; an exchange is saved as soon as its
\* distribution is set
ExchangeLoop(exs, db, flow_profiles, j) ==
    IF j > Len(exs) THEN [error |-> "none", exchanges |-> exs]
    ELSE IF \/ exs[j].database # db
            \/ exs[j].type # "biosphere"
            \/ ~HasKey(flow_profiles, exs[j].name)
    THEN ExchangeLoop(exs, db, flow_profiles, j + 1)
    ELSE LET profile == DictGet(flow_profiles, exs[j].name)
             td == _build_temporal_distribution(
                       exs[j].amount, DictGet(profile, "kind"),
                       IF HasKey(profile, "params") THEN DictGet(profile, "params")
                       ELSE << >>)
         IN IF ~HasKey(profile, "kind") THEN [error |-> "KeyError", exchanges |-> exs]
            ELSE IF td.error # "none" THEN [error |-> td.error, exchanges |-> exs]
            ELSE ExchangeLoop([exs EXCEPT ![j].temporal_distribution = td.value],
                              db, flow_profiles, j + 1)

RECURSIVE ProcessLoop(_, _, _)
\* lines 156-178: the loop over process_temporal_profiles.items(), from position i on
ProcessLoop(exs, process_temporal_profiles, i) ==
    IF i > Len(process_temporal_profiles) THEN [error |-> "none", exchanges |-> exs]
    ELSE IF process_temporal_profiles[i].k \notin databases
    THEN [error |-> "ValueError", exchanges |-> exs]
    ELSE LET r == ExchangeLoop(exs, process_temporal_profiles[i].k,
                               process_temporal_profiles[i].v, 1)
         IN IF r.error # "none" THEN r
            ELSE ProcessLoop(r.exchanges, process_temporal_profiles, i + 1)

\* lines 111-178
attach_temporal_distributions(process_temporal_profiles) ==
    LET r == ProcessLoop(exchanges, process_temporal_profiles, 1)
    IN /\ ncalls < MaxCalls
       /\ exchanges' = r.exchanges
       /\ last' = [NoCall EXCEPT !.op = "attach_temporal_distributions",
                                 !.outcome = IF r.error = "none" THEN "ok" ELSE r.error,
                                 !.args = [process_temporal_profiles |->
                                               process_temporal_profiles]]
       /\ ncalls' = ncalls + 1
       /\ UNCHANGED <<_temporalis_lca, _timeline, built, returned, solved, dicts,
                      technosphere_matrix, biosphere_matrix, coords, tech_matrix,
                      bio_matrix>>

\* the nodes of biosphere3: the id of the flow of each name
FlowNodes ==
    <<Entry("Methane, fossil", 1), Entry("Carbon dioxide, non-fossil", 2),
      Entry("Carbon dioxide, fossil", 3)>>
\* bd.Database("biosphere3").search(flow_name): the nodes found, best first
search(flow_name) ==
    IF HasKey(FlowNodes, flow_name) THEN <<DictGet(FlowNodes, flow_name)>> ELSE << >>

UpperCase == "ABCDEFGHIJKLMNOPQRSTUVWXYZ"
LowerCase == "abcdefghijklmnopqrstuvwxyz"
\* the lower-case letter of every upper-case letter
ToLower ==
    [c \in {SubSeq(UpperCase, p, p) : p \in 1..Len(UpperCase)} |->
        LET p == CHOOSE q \in 1..Len(UpperCase) : SubSeq(UpperCase, q, q) = c
        IN SubSeq(LowerCase, p, p)]
RECURSIVE LowerFrom(_, _)
LowerFrom(s, i) ==
    IF i > Len(s) THEN ""
    ELSE LET c == SubSeq(s, i, i)
         IN (IF c \in DOMAIN ToLower THEN ToLower[c] ELSE c) \o LowerFrom(s, i + 1)
\* s.lower()
lower(s) == LowerFrom(s, 1)
\* sub in s
Contains(sub, s) ==
    \E i \in 1..(Len(s) - Len(sub) + 1) : SubSeq(s, i, i + Len(sub) - 1) = sub

\* lines 258-263: the flows characterized when the caller names none
DefaultFlows == {"Carbon dioxide, fossil", "Carbon dioxide, non-fossil", "Methane, fossil"}
\* lines 278-285: the id of the first node found for each flow name that has one,
\* with name.lower() next to the name
flow_node_map(flows_to_characterize) ==
    LET flows == IF flows_to_characterize = None THEN DefaultFlows
                 ELSE flows_to_characterize.e
    IN {[id |-> search(name)[1], name |-> name, lower |-> lower(name)] :
           name \in {n \in flows : search(n) # << >>}}
\* lines 287-292
co2_flows(flows_to_characterize) ==
    {x.id : x \in {y \in flow_node_map(flows_to_characterize) :
                      Contains("carbon dioxide", y.lower)}}
ch4_flows(flows_to_characterize) ==
    {x.id : x \in {y \in flow_node_map(flows_to_characterize) :
                      Contains("methane", y.lower)}}

\* a Python set
PySet(S) == [t |-> "set", e |-> S]
\* flows_to_characterize: the default, one flow that biosphere3 has, one that it
\* does not have
FlowChoices == {None, PySet({"Methane, fossil"}), PySet({"Methane, biogenic"})}
\* co2_flows and ch4_flows of each of these, worked out once
FlowSets == [f \in FlowChoices |-> [co2 |-> co2_flows(f), ch4 |-> ch4_flows(f)]]

\* the columns of the table calculate returns when nothing was characterized
EmptyColumns == <<"year", "gwp_kgco2eq", "flow", "activity">>
\* the columns after groupby(["year", "flow", "activity"]), agg and rename
AnnualColumns == <<"year", "flow", "activity", "gwp_kgco2eq">>

\* the group of a characterized row: df_combined["date"].dt.year, flow, activity
GroupOf(row) == <<row.date.year, row.flow, row.activity>>
\* a < b in the order of the group keys
GroupLess(a, b) ==
    \/ a[1] < b[1]
    \/ a[1] = b[1] /\ a[2] < b[2]
    \/ a[1] = b[1] /\ a[2] = b[2] /\ a[3] < b[3]
RECURSIVE SortGroups(_)
SortGroups(S) ==
    IF S = {} THEN << >>
    ELSE LET m == CHOOSE x \in S : \A y \in S \ {x} : GroupLess(x, y)
         IN <<m>> \o SortGroups(S \ {m})

\* one row per group, holding the first amount of the group
groupby_first(df) ==
    LET groups == SortGroups({GroupOf(df[p]) : p \in 1..Len(df)})
    IN [i \in 1..Len(groups) |->
           [year |-> groups[i][1], flow |-> groups[i][2], activity |-> groups[i][3],
            gwp_kgco2eq |->
                df[CHOOSE p \in 1..Len(df) :
                      /\ GroupOf(df[p]) = groups[i]
                      /\ \A q \in 1..(p - 1) : GroupOf(df[q]) # groups[i]].amount]]

\* lines 320-324: one row per group, in the order of the group keys, holding the
\* sum of the amounts of the group
groupby_sum(df) ==
    LET groups == SortGroups({GroupOf(df[p]) : p \in 1..Len(df)})
    IN [i \in 1..Len(groups) |->
           [year |-> groups[i][1], flow |-> groups[i][2], activity |-> groups[i][3],
            gwp_kgco2eq |->
                SumAt([p \in 1..Len(df) |-> df[p].amount],
                      {p \in 1..Len(df) : GroupOf(df[p]) = groups[i]})]]

RECURSIVE InsertByYear(_, _)
\* rows with row put after the last row of a year that is not later
InsertByYear(rows, row) ==
    IF rows = << >> THEN <<row>>
    ELSE IF rows[Len(rows)].year <= row.year THEN Append(rows, row)
    ELSE Append(InsertByYear(SubSeq(rows, 1, Len(rows) - 1), row), rows[Len(rows)])
RECURSIVE SortFrom(_, _, _)
SortFrom(rows, i, acc) ==
    IF i > Len(rows) THEN acc ELSE SortFrom(rows, i + 1, InsertByYear(acc, rows[i]))
\* line 325: annual.sort_values("year").reset_index(drop=True)
sort_values(rows) == SortFrom(rows, 1, << >>)

\* the calls into bw_temporalis that may raise
Faults == {"none", "TemporalisLCA", "build_timeline", "characterize_dataframe"}

\* calculate, were it to assign self._timeline last, when nothing can raise any more
calculate_assigning_last(flows_to_characterize, fault, characterized_co2, characterized_ch4) ==
    LET lca == [t |-> "TemporalisLCA", id |-> ncalls + 1]
        timeline == [t |-> "Timeline", lca |-> lca.id]
        df_co2 == IF FlowSets[flows_to_characterize].co2 # {} THEN characterized_co2
                  ELSE << >>
        df_ch4 == IF FlowSets[flows_to_characterize].ch4 # {} THEN characterized_ch4
                  ELSE << >>
        df_combined == df_co2 \o df_ch4
    IN /\ ncalls < MaxCalls
       /\ _temporalis_lca' = IF fault = "TemporalisLCA" THEN _temporalis_lca ELSE lca
       /\ _timeline' = IF fault # "none" THEN _timeline ELSE timeline
       /\ built' = IF fault \in {"TemporalisLCA", "build_timeline"} THEN built
                   ELSE timeline
       /\ returned' = IF fault = "none" THEN timeline ELSE returned
       /\ last' = [NoCall EXCEPT
                      !.op = "calculate",
                      !.outcome = IF fault = "none" THEN "ok" ELSE "Exception",
                      !.args = [flows_to_characterize |-> flows_to_characterize,
                                fault |-> fault, df_co2 |-> df_co2, df_ch4 |-> df_ch4],
                      !.result = IF fault # "none" THEN None
                                 ELSE IF df_combined = << >>
                                 THEN [columns |-> EmptyColumns, rows |-> << >>]
                                 ELSE [columns |-> AnnualColumns,
                                       rows |-> sort_values(groupby_sum(df_combined))]]
       /\ ncalls' = ncalls + 1
       /\ UNCHANGED <<exchanges, solved, dicts, technosphere_matrix, biosphere_matrix,
                      coords, tech_matrix, bio_matrix>>

\* lines 227-325; fault names the call into bw_temporalis that raises, and
\* characterized_co2 / characterized_ch4 are the rows characterize_dataframe
\* yields for the flows of co2_flows / ch4_flows
calculate(flows_to_characterize, fault, characterized_co2, characterized_ch4) ==
    LET lca == [t |-> "TemporalisLCA", id |-> ncalls + 1]
        timeline == [t |-> "Timeline", lca |-> lca.id]
        df_co2 == IF FlowSets[flows_to_characterize].co2 # {} THEN characterized_co2
                  ELSE << >>
        df_ch4 == IF FlowSets[flows_to_characterize].ch4 # {} THEN characterized_ch4
                  ELSE << >>
        df_combined == df_co2 \o df_ch4
    IN /\ ncalls < MaxCalls
       /\ _temporalis_lca' = IF fault = "TemporalisLCA" THEN _temporalis_lca ELSE lca
       /\ _timeline' = IF fault \in {"TemporalisLCA", "build_timeline"} THEN _timeline
                       ELSE timeline
       /\ built' = IF fault \in {"TemporalisLCA", "build_timeline"} THEN built
                   ELSE timeline
       /\ returned' = IF fault = "none" THEN timeline ELSE returned
       /\ last' = [NoCall EXCEPT
                      !.op = "calculate",
                      !.outcome = IF fault = "none" THEN "ok" ELSE "Exception",
                      !.args = [flows_to_characterize |-> flows_to_characterize,
                                fault |-> fault, df_co2 |-> df_co2, df_ch4 |-> df_ch4],
                      !.result = IF fault # "none" THEN None
                                 ELSE IF df_combined = << >>
                                 THEN [columns |-> EmptyColumns, rows |-> << >>]
                                 ELSE [columns |-> AnnualColumns,
                                       rows |-> sort_values(groupby_sum(df_combined))]]
       /\ ncalls' = ncalls + 1
       /\ UNCHANGED <<exchanges, solved, dicts, technosphere_matrix, biosphere_matrix,
                      coords, tech_matrix, bio_matrix>>

\* lines 327-340
get_timeline ==
    /\ ncalls < MaxCalls
    /\ last' = [NoCall EXCEPT !.op = "get_timeline",
                              !.outcome = IF _timeline = None THEN "RuntimeError"
                                          ELSE "ok",
                              !.result = IF _timeline = None THEN None ELSE _timeline]
    /\ ncalls' = ncalls + 1
    /\ UNCHANGED <<dynamic, solved, dicts, technosphere_matrix, biosphere_matrix,
                   coords, tech_matrix, bio_matrix>>

\* the profiles attached: one kind of each, and one of a kind that does not exist
Profile(kind, params) == <<Entry("kind", kind), Entry("params", params)>>
Profiles ==
    {Profile("immediate", << >>),
     Profile("exponential_decay", <<Entry("k", Ln2), Entry("period", MaxPeriod)>>),
     Profile("uniform", <<Entry("end", MaxSteps), Entry("steps", MaxSteps)>>),
     Profile("step", << >>)}
FlowProfiles ==
    {<<Entry("Methane, fossil", p)>> : p \in Profiles}
    \cup {<<Entry("Carbon dioxide, fossil", Profile("immediate", << >>))>>,
          <<Entry("Methane, fossil", <<Entry("kind", "immediate")>>),
            Entry("Carbon dioxide, non-fossil",
                  Profile("uniform", <<Entry("end", MaxSteps), Entry("steps", 0)>>))>>}
\* the process names: two databases of the project and one that it does not have
ProcessNames == {"LF", "WTE", "MRF"}
\* one process with any of the flow profiles, or two, the second with a profile
\* for methane that is built or one that is not
ProcessProfiles ==
    {<<Entry(x, f)>> : x \in ProcessNames, f \in FlowProfiles}
    \cup {<<Entry(xy[1], f), Entry(xy[2], <<Entry("Methane, fossil", Profile(kind, << >>))>>)>> :
             xy \in {q \in ProcessNames \X ProcessNames : q[1] # q[2]},
             f \in FlowProfiles, kind \in {"immediate", "step"}}

\* what characterize_dataframe may yield for a set of flows: up to MaxRows rows
\* of those flows, two dates of one year and one of the next, for two activities
Dates == {[year |-> 2024, month |-> 1], [year |-> 2024, month |-> 7],
          [year |-> 2025, month |-> 1]}
CharacterizedRows(flows) ==
    {[date |-> d, amount |-> Num(1), flow |-> f, activity |-> a] :
        d \in Dates, f \in flows, a \in {4, 5}}
Characterized(flows, n) ==
    UNION {[1..m -> CharacterizedRows(flows)] : m \in 0..n}

Attach == \E profiles \in ProcessProfiles : attach_temporal_distributions(profiles)
\* the calls of calculate: the flows asked for, the call that raises, if any, and
\* otherwise the rows characterized, MaxRows at most in all; characterize_dataframe
\* raises only where it is called
CalculateInputs ==
    UNION {UNION {{<<flows, fault, co2, ch4>> :
                      co2 \in Characterized(FlowSets[flows].co2, n),
                      ch4 \in Characterized(FlowSets[flows].ch4, MaxRows - n)} :
                  n \in 0..MaxRows} :
           flows \in FlowChoices, fault \in {"none"}}
    \cup {<<flows, fault, << >>, << >>>> :
             flows \in FlowChoices,
             fault \in {f \in Faults \ {"none", "characterize_dataframe"} : TRUE}}
    \cup {<<flows, "characterize_dataframe", << >>, << >>>> :
             flows \in {f \in FlowChoices : FlowSets[f].co2 \cup FlowSets[f].ch4 # {}}}
Calculate == \E c \in CalculateInputs : calculate(c[1], c[2], c[3], c[4])
GetTimeline == get_timeline

\* SpecDyn: a DynamicLCA object over the solved context
InitDyn == InitMass
NextDyn == Attach \/ Calculate \/ GetTimeline
SpecDyn == InitDyn /\ [][NextDyn]_vars

-----------------------------------------------------------------------------
(* Properties.                                                             *)

IsRebuildTechOfTable ==
    last.op = "rebuild_technosphere_matrix" /\ last.values = DictValues(tech_matrix)
IsRebuildBioOfTable ==
    last.op = "rebuild_biosphere_matrix" /\ last.values = DictValues(bio_matrix)

\* the tables __init__ built (the solved matrices and the dictionaries never change)
BuiltTechTable ==
    TechTable(<< >>, 1, CooRow(solved.technosphere), CooCol(solved.technosphere),
              CooData(solved.technosphere), dicts)
BuiltBioTable ==
    BioTable(CooRow(solved.biosphere), CooCol(solved.biosphere),
             CooData(solved.biosphere), dicts)

\* the composite key of the p-th captured biosphere coordinate pair
BioKeyAt(p) == <<dicts.biosphere[bio_coo_rows[p]], dicts.activity[bio_coo_cols[p]]>>
\* the positions of the captured biosphere pairs that map to the key of position p
SameBioKey(p) == {q \in 1..Len(bio_coo_rows) : BioKeyAt(q) = BioKeyAt(p)}

\* C1 (round trip): with no update since construction, a rebuild called with the
\* table's own values in insertion order succeeds and leaves a matrix equal to the
\* solved one (same stored pattern, same values), for the technosphere and for the
\* biosphere matrix.
C1_RoundTrip ==
    /\ IsRebuildTechOfTable =>
          last.outcome = "ok" /\ technosphere_matrix = solved.technosphere
    /\ IsRebuildBioOfTable =>
          last.outcome = "ok" /\ biosphere_matrix = solved.biosphere

\* C2 (key-set immutability): in every state, after any applier calls that returned
\* or raised, each table has exactly the keys __init__ gave it.
C2_KeySetImmutable ==
    /\ KeySet(tech_matrix) = KeySet(BuiltTechTable)
    /\ KeySet(bio_matrix) = KeySet(BuiltBioTable)

\* C2 witness: after two applier calls, the first of which changed the technosphere
\* table and the second of which raised.
C2_Witness ==
    /\ ncalls = 2 /\ last.op = "update_biomatrix" /\ last.outcome = "KeyError"
    /\ tech_matrix # BuiltTechTable

\* what the loop-agreement claim says of a rebuilt matrix M, the table it was
\* rebuilt from and the captured arrays: original shape, the table's p-th value at
\* the p-th captured pair, zero at every other cell
Agrees(M, table, rows, cols, shape0) ==
    /\ M.shape = shape0
    /\ Len(table) = Len(rows)
    /\ \A p \in 1..Len(table) : Cell(M, rows[p], cols[p]) = table[p].v
    /\ \A c \in CellsOf(shape0) :
          (\A p \in 1..Len(rows) : <<rows[p], cols[p]>> # c) => Cell(M, c[1], c[2]) = Num(0)

\* C3 (loop agreement): after any applier calls, a rebuild called with the table's
\* current values in insertion order succeeds and the rebuilt matrix has the
\* original shape, holds each table key's value at that key's coordinate and is
\* zero elsewhere, for both tables.
C3_LoopAgreement ==
    /\ IsRebuildTechOfTable =>
          /\ last.outcome = "ok"
          /\ Agrees(technosphere_matrix, tech_matrix, tech_coo_rows, tech_coo_cols,
                    solved.technosphere.shape)
    /\ IsRebuildBioOfTable =>
          /\ last.outcome = "ok"
          /\ Agrees(biosphere_matrix, bio_matrix, bio_coo_rows, bio_coo_cols,
                    solved.biosphere.shape)

\* C4 (idempotence): a step that calls an applier again with the report of the call
\* before it, which returned normally, returns normally and leaves the table as it
\* was.
C4_Idempotent ==
    [][ /\ (last.op = "update_techmatrix" /\ last.outcome = "ok"
              /\ last'.op = "update_techmatrix" /\ last'.report = last.report)
           => (last'.outcome = "ok" /\ tech_matrix' = tech_matrix)
        /\ (last.op = "update_biomatrix" /\ last.outcome = "ok"
              /\ last'.op = "update_biomatrix" /\ last'.report = last.report)
           => (last'.outcome = "ok" /\ bio_matrix' = bio_matrix) ]_vars

\* C4 witness: update_techmatrix has been called twice in succession with one
\* report, returned normally, and the table differs from the one __init__ built.
C4_Witness ==
    /\ last.op = "update_techmatrix" /\ last.again /\ last.outcome = "ok"
    /\ tech_matrix # BuiltTechTable

\* C5 (collision disambiguation): when exactly two captured biosphere pairs map to
\* one composite key, the first one's value is held under that key and the second
\* one's under the suffixed key; and when no key has more than two pairs, the table
\* has as many entries as there are captured pairs.
C5_CollisionPair ==
    LET data == CooData(solved.biosphere)
    IN /\ \A p \in 1..Len(bio_coo_rows) : \A q \in (p + 1)..Len(bio_coo_rows) :
              SameBioKey(p) = {p, q} =>
                 LET k1 == BioKeyAt(p)
                     k2 == SuffixedKey(k1[1], k1[2])
                 IN /\ k1 # k2
                    /\ HasKey(bio_matrix, k1) /\ DictGet(bio_matrix, k1) = data[p]
                    /\ HasKey(bio_matrix, k2) /\ DictGet(bio_matrix, k2) = data[q]
       /\ (\A p \in 1..Len(bio_coo_rows) : Cardinality(SameBioKey(p)) <= 2)
             => Len(bio_matrix) = Len(bio_coo_rows)

\* C5 witness: two pairs with different amounts map to one key, and a third pair
\* maps to another key.
C5_Witness ==
    /\ Len(bio_coo_rows) = 3
    /\ SameBioKey(1) = {1, 2}
    /\ CooData(solved.biosphere)[1] # CooData(solved.biosphere)[2]

\* C6 (no data loss on collision): however many captured biosphere pairs map to one
\* key, the biosphere table has one entry per captured pair.
C6_NoDataLoss == Len(bio_matrix) = Len(bio_coo_rows)

\* C7 (technosphere order): in every state the technosphere table has one entry per
\* captured pair, and its i-th key is (product key of row i, activity key of col i).
C7_TechOrder ==
    /\ Len(tech_matrix) = Len(tech_coo_rows)
    /\ \A i \in 1..Len(tech_matrix) :
          tech_matrix[i].k = <<dicts.product[tech_coo_rows[i]], dicts.activity[tech_coo_cols[i]]>>

\* C7 witness: update_techmatrix has overwritten the amount of a key that is not
\* the last one of the table.
C7_Witness ==
    /\ last.op = "update_techmatrix"
    /\ \E i \in 1..(Len(tech_matrix) - 1) : tech_matrix[i].v # BuiltTechTable[i].v

\* the position of the first pass of steps that the table makes raise (0: none)
FirstBad(table, steps) ==
    LET bad == {j \in 1..Len(steps) :
                   \/ steps[j].err # "none"
                   \/ isnan(steps[j].value)
                   \/ ~HasKey(table, steps[j].key)}
    IN IF bad = {} THEN 0 ELSE CHOOSE j \in bad : \A x \in bad : j <= x
\* a pass that derives a key, with a number, that the table lacks
IsMissingKey(table, st) ==
    st.err = "none" /\ ~isnan(st.value) /\ ~HasKey(table, st.key)

\* C8 (fatal on missing key, no rollback): a call of update_techmatrix raises
\* KeyError exactly when the first pass that cannot be applied derives, with a
\* number, a key the table lacks; it stops there: every key keeps the amount of the
\* last earlier pass that targets it, or its old amount when there is none.
C8_MissingKey ==
    [][ last'.op = "update_techmatrix" =>
        LET steps == last'.steps
            f == FirstBad(tech_matrix, steps)
        IN /\ (f # 0 /\ IsMissingKey(tech_matrix, steps[f]))
                 <=> last'.outcome = "KeyError"
           /\ last'.outcome = "KeyError" =>
                 /\ last'.failed = f
                 /\ DictKeys(tech_matrix') = DictKeys(tech_matrix)
                 /\ \A i \in 1..Len(tech_matrix) :
                       LET W == {j \in 1..(f - 1) : steps[j].key = tech_matrix[i].k}
                       IN tech_matrix'[i].v =
                             IF W = {} THEN tech_matrix[i].v
                             ELSE steps[CHOOSE j \in W : \A x \in W : x <= j].value ]_vars

\* C8 witness: update_techmatrix raised KeyError at its second pass, after a first
\* pass that changed the table.
C8_Witness ==
    /\ ncalls = 1 /\ last.op = "update_techmatrix" /\ last.outcome = "KeyError"
    /\ last.failed = 2
    /\ tech_matrix # BuiltTechTable

\* a dict of dicts holds a NaN
GroupingHasNaN(g) == \E i \in 1..Len(g) : \E j \in 1..Len(g[i].v) : isnan(g[i].v[j].v)
\* "LCI" holds a NaN at a leaf whose flow key has ("biosphere3" in n) = bio
LCIHasNaN(report, bio) ==
    /\ report.hasLCI
    /\ \E a \in 1..Len(report.LCI) : \E b \in 1..Len(report.LCI[a].v) :
          \E c \in 1..Len(report.LCI[a].v[b].v) :
             /\ In("biosphere3", report.LCI[a].v[b].v[c].k) = bio
             /\ isnan(report.LCI[a].v[b].v[c].v)
TechReportHasNaN(report) ==
    GroupingHasNaN(report.Technosphere) \/ GroupingHasNaN(report.Waste)
        \/ LCIHasNaN(report, FALSE)
BioReportHasNaN(report) == GroupingHasNaN(report.Biosphere) \/ LCIHasNaN(report, TRUE)

\* C9 (fatal on NaN): an applier called with a report that holds a NaN in one of
\* the groupings it reads never returns normally, and it raises ValueError unless
\* an entry with a number failed first.
C9_FatalOnNaN ==
    LET raised == /\ last.outcome # "ok"
                  /\ \/ last.outcome = "ValueError"
                     \/ ~isnan(last.steps[last.failed].value)
    IN /\ (last.op = "update_techmatrix" /\ TechReportHasNaN(last.report)) => raised
       /\ (last.op = "update_biomatrix" /\ BioReportHasNaN(last.report)) => raised

\* C10 (NaN is never stored): no table holds a NaN in any state.
C10_NoNaNStored ==
    /\ \A i \in 1..Len(tech_matrix) : ~isnan(tech_matrix[i].v)
    /\ \A i \in 1..Len(bio_matrix) : ~isnan(bio_matrix[i].v)

\* C10 witness: an applier raised ValueError on a NaN after an earlier pass of the
\* same call had changed the table.
C10_Witness ==
    /\ ncalls = 1 /\ last.op = "update_techmatrix" /\ last.outcome = "ValueError"
    /\ last.failed = 2 /\ isnan(last.steps[2].value)
    /\ tech_matrix # BuiltTechTable

\* the table an applier call was given the keys of (the appliers never change them)
IsApplier == last.op \in {"update_techmatrix", "update_biomatrix"}
TableOfLast == IF last.op = "update_techmatrix" THEN tech_matrix ELSE bio_matrix

\* C11 (distinct error kinds): an applier call that fails raises ValueError or
\* KeyError and nothing else, as the first pass that cannot be applied decides:
\* ValueError exactly when that pass's amount is NaN, KeyError only when its amount
\* is a number and the key it derives is not in the table.
C11_ErrorKinds ==
    (IsApplier /\ last.outcome # "ok") =>
        LET st == last.steps[last.failed]
        IN /\ last.outcome \in {"ValueError", "KeyError"}
           /\ last.outcome = "ValueError" <=> isnan(st.value)
           /\ last.outcome = "KeyError" => ~HasKey(TableOfLast, st.key)

\* the positions in steps of the "Waste" passes of material m, in loop order
WastePasses(steps, m) ==
    Ascending({p \in 1..Len(steps) : steps[p].grp = "Waste" /\ steps[p].material = m})
\* the call of last ran its p-th pass (it raised no earlier)
Executed(p) == last.failed = 0 \/ p <= last.failed
\* a material name that starts with a transfer-station prefix
HasPrefix(m) ==
    \E x \in {"DryRes", "WetRes", "ORG", "REC"} : Len(m) >= Len(x) /\ SubSeq(m, 1, Len(x)) = x
\* the name without its prefix and the separator that follows the prefix
StrippedName(m) ==
    LET x == CHOOSE y \in {"DryRes", "WetRes", "ORG", "REC"} :
                 Len(m) >= Len(y) /\ SubSeq(m, 1, Len(y)) = y
    IN IF Len(m) <= Len(x) + 1 THEN "" ELSE SubSeq(m, Len(x) + 2, Len(m))
\* the target key of a "Waste" entry built from the name nm and the code
WasteTarget(nm, code, m) ==
    <<PyTuple(<<product_name, nm \o "_" \o code>>), PyTuple(<<process_name, m>>)>>
\* the pass p of the call of last derived the key and, when the call returned,
\* the table holds the amount v under it
MappedTo(p, key, v) ==
    /\ last.steps[p].err = "none" /\ last.steps[p].key = key
    /\ last.outcome = "ok" => (HasKey(tech_matrix, key) /\ DictGet(tech_matrix, key) = v)

C13_UnstrippedName ==
    last.op = "update_techmatrix" =>
        \A i \in 1..Len(last.report.Waste) :
            LET m == last.report.Waste[i].k
                value == last.report.Waste[i].v
                ps == WastePasses(last.steps, m)
            IN \A j \in 1..Len(value) :
                  ( /\ last.report.tag # "Transfer_Station" \/ ~HasPrefix(m)
                    /\ IsStr(value[j].k)
                    /\ Executed(ps[j]) ) =>
                      /\ last.steps[ps[j]].err = "none"
                      /\ last.steps[ps[j]].key = WasteTarget(m, value[j].k.s, m)

\* a flow key of the biosphere namespace
IsBiosphereKey(n) == ~IsStr(n) /\ n.e[1] = "biosphere3"
\* the transport-link target key of the "LCI" leaf n under y, m
TransportLink(y, m, n) == <<n, PyTuple(<<product_name, y \o "_to_" \o m>>)>>

\* C14 (LCI transport links): when an applier returns from a report that contains
\* "LCI", every leaf it is to read (update_techmatrix the non-biosphere leaves,
\* update_biomatrix the biosphere ones) was applied in a pass to its transport-link
\* key, and the table holds the leaf's amount under that key, whatever "Waste" and
\* "Biosphere" hold.
C14_LCIApplied ==
    (IsApplier /\ last.outcome = "ok" /\ last.report.hasLCI) =>
        \A a \in 1..Len(last.report.LCI) : \A b \in 1..Len(last.report.LCI[a].v) :
            \A c \in 1..Len(last.report.LCI[a].v[b].v) :
                LET leaf == last.report.LCI[a].v[b].v[c]
                    key == TransportLink(last.report.LCI[a].k, last.report.LCI[a].v[b].k, leaf.k)
                IN (IsBiosphereKey(leaf.k) <=> last.op = "update_biomatrix") =>
                      /\ \E p \in 1..Len(last.steps) :
                            last.steps[p].key = key /\ last.steps[p].value = leaf.v
                      /\ HasKey(TableOfLast, key) /\ DictGet(TableOfLast, key) = leaf.v

\* the target key of the entry (material m, counterpart key k) of "Technosphere"
\* or "Biosphere"
DirectTarget(k, m) == <<k, PyTuple(<<process_name, m>>)>>
\* the table holds, under its target key, the amount of every entry of the
\* grouping g that satisfies cond
HoldsEntries(table, g, cond(_)) ==
    \A i \in 1..Len(g) : \A j \in 1..Len(g[i].v) :
        LET key == DirectTarget(g[i].v[j].k, g[i].k)
        IN cond(key) => (HasKey(table, key) /\ DictGet(table, key) = g[i].v[j].v)
\* a "Waste" pass of the call of last derived the key
WasteDerives(key) ==
    \E p \in 1..Len(last.steps) : last.steps[p].grp = "Waste" /\ last.steps[p].key = key

\* C15 as stated (apply postcondition): after update_techmatrix returns normally the
\* table holds the amount of every "Technosphere" entry under (counterpart key,
\* (T, material)); after update_biomatrix returns normally the table holds the
\* amount of every "Biosphere" entry under that key.
C15_ApplyPostcondition ==
    /\ (last.op = "update_techmatrix" /\ last.outcome = "ok") =>
          HoldsEntries(tech_matrix, last.report.Technosphere, LAMBDA key : TRUE)
    /\ (last.op = "update_biomatrix" /\ last.outcome = "ok") =>
          HoldsEntries(bio_matrix, last.report.Biosphere, LAMBDA key : TRUE)

\* C15 as amended: the same, for every "Technosphere" entry whose target key no
\* "Waste" entry of the report derives (the "Waste" loop runs after the
\* "Technosphere" loop and stores over it), and for every "Biosphere" entry.
C15_ApplyUnlessWaste ==
    /\ (last.op = "update_techmatrix" /\ last.outcome = "ok") =>
          HoldsEntries(tech_matrix, last.report.Technosphere,
                       LAMBDA key : ~WasteDerives(key))
    /\ (last.op = "update_biomatrix" /\ last.outcome = "ok") =>
          HoldsEntries(bio_matrix, last.report.Biosphere, LAMBDA key : TRUE)

\* C15 witness: update_techmatrix returned after it stored, under
\* (("X", "e"), (T, DryRes_P)), a "Technosphere" amount the table did not hold.
C15_Witness ==
    LET key == DirectTarget(PyTuple(<<"X", "e">>), "DryRes_P")
    IN /\ ncalls = 1 /\ last.op = "update_techmatrix" /\ last.outcome = "ok"
       /\ HasKey(last.report.Technosphere, "DryRes_P")
       /\ DictGet(tech_matrix, key) # DictGet(BuiltTechTable, key)

\* C16 (rebuild length precondition): a rebuild called with a value array whose
\* length is not the number of captured coordinate pairs raises ValueError and
\* leaves the working matrix it was to replace as it was.
C16_RebuildLength ==
    [][ /\ (last'.op = "rebuild_technosphere_matrix"
              /\ Len(last'.values) # Len(tech_coo_rows))
           => (last'.outcome = "ValueError" /\ technosphere_matrix' = technosphere_matrix)
        /\ (last'.op = "rebuild_biosphere_matrix"
              /\ Len(last'.values) # Len(bio_coo_rows))
           => (last'.outcome = "ValueError" /\ biosphere_matrix' = biosphere_matrix) ]_vars

\* C16 witness: a technosphere rebuild with one value too many raised, over a
\* matrix that stores three cells.
C16_Witness ==
    /\ last.op = "rebuild_technosphere_matrix" /\ last.outcome = "ValueError"
    /\ Len(tech_coo_rows) = 3 /\ Len(last.values) = 4
    /\ technosphere_matrix = solved.technosphere

\* C17 (write-once coordinates): no step changes the captured coordinate arrays and
\* shapes, and a rebuild step changes nothing but the sparse matrix it rebuilds:
\* the other sparse matrix and both tables stay as they were.
C17_WriteOnce ==
    [][ /\ coords' = coords
        /\ last'.op = "rebuild_technosphere_matrix"
              => UNCHANGED <<biosphere_matrix, tech_matrix, bio_matrix>>
        /\ last'.op = "rebuild_biosphere_matrix"
              => UNCHANGED <<technosphere_matrix, tech_matrix, bio_matrix>> ]_vars

\* C17 witness: after update_biomatrix changed the biosphere table, a biosphere
\* rebuild from the table's values replaced the biosphere matrix by a different
\* one; the technosphere matrix and the coordinate arrays are the constructed ones.
C17_Witness ==
    /\ ncalls = 2 /\ last.op = "rebuild_biosphere_matrix" /\ last.outcome = "ok"
    /\ biosphere_matrix # solved.biosphere
    /\ technosphere_matrix = solved.technosphere
    /\ bio_coo_rows = CooRow(solved.biosphere) /\ bio_coo_cols = CooCol(solved.biosphere)

\* the end of the numeric multiplier a unit string starts with: the positions p with
\* digits at 1..p and a space at p + 1 (one position at most)
MultiplierEnd(unit) ==
    {p \in 1..(Len(unit) - 1) :
        SubSeq(unit, p + 1, p + 1) = " " /\ \A q \in 1..p : IsDigit(SubSeq(unit, q, q))}
HasMultiplier(unit) == MultiplierEnd(unit) # {}
\* the amount x of an activity of the given unit, unit-normalized
Normalized(x, unit) ==
    IF HasMultiplier(unit)
    THEN LET p == CHOOSE q \in MultiplierEnd(unit) : TRUE
         IN FloatMul(x, Num(DecimalValue(SubSeq(unit, 1, p), 1, 0)))
    ELSE x
\* the positions of the activities of the call's namespace whose code is in codes
Counted(args, codes) ==
    {i \in 1..Len(args.LCA.activity) :
        args.LCA.activity[i].k.e[1] = args.process /\ args.LCA.activity[i].k.e[2] \in codes}
AllCodes(args) == {args.LCA.activity[i].k.e[2] : i \in 1..Len(args.LCA.activity)}
SupplyOf(args, i) == args.LCA.supply_array[args.LCA.activity[i].v + 1]
UnitOf(args, i) == args.db[args.LCA.activity[i].k]
\* the unit-normalized sum of the supply amounts of the counted activities
NormalizedSum(args, codes) ==
    SumAt([i \in 1..Len(args.LCA.activity) |-> Normalized(SupplyOf(args, i), UnitOf(args, i))],
          Counted(args, codes))
\* the sum of the supply amounts of the counted activities, as they are
PlainSum(args, codes) ==
    SumAt([i \in 1..Len(args.LCA.activity) |-> SupplyOf(args, i)], Counted(args, codes))

\* C18 (total mass): get_mass_flow returns the sum, over the activities of the
\* namespace process, of the supply amount, multiplied by the leading numeric
\* factor of the unit when the unit has one; other namespaces add nothing.
C18_TotalMass ==
    last.op = "get_mass_flow" =>
        /\ last.outcome = "ok"
        /\ last.result = NormalizedSum(last.args, AllCodes(last.args))

\* C19 (unit used as-is): when no activity that a call counts has a unit that
\* starts with a numeric multiplier and a space, get_mass_flow returns the sum of
\* the supply amounts unmodified, and get_mass_flow_comp holds that sum per key.
C19_UnitAsIs ==
    /\ ( /\ last.op = "get_mass_flow"
         /\ \A i \in Counted(last.args, AllCodes(last.args)) :
               ~HasMultiplier(UnitOf(last.args, i)) ) =>
          /\ last.outcome = "ok"
          /\ last.result = PlainSum(last.args, AllCodes(last.args))
    /\ ( /\ last.op = "get_mass_flow_comp"
         /\ \A p \in 1..Len(last.args.index) :
               \A i \in Counted(last.args, {last.args.index[p]}) :
                  ~HasMultiplier(UnitOf(last.args, i)) ) =>
          /\ last.outcome = "ok"
          /\ \A p \in 1..Len(last.args.index) :
                last.result[p].v = PlainSum(last.args, {last.args.index[p]})

\* C20 (mass by index): get_mass_flow_comp returns one accumulator per requested
\* key, in the order of index; the accumulator of a key is the unit-normalized sum
\* of the supply amounts of the activities of the namespace process with that code,
\* and 0 when there is none.
C20_MassByIndex ==
    last.op = "get_mass_flow_comp" =>
        /\ last.outcome = "ok"
        /\ DictKeys(last.result) = last.args.index
        /\ \A p \in 1..Len(last.args.index) :
              last.result[p].v = NormalizedSum(last.args, {last.args.index[p]})

\* the mass-flow aggregators
Aggregators == {"get_mass_flow", "get_mass_flow_comp"}

\* C21 (aggregators are read-only): a call of get_mass_flow or get_mass_flow_comp,
\* whether it returns or raises, leaves the LCA object it is given as it was (its
\* supply array and its activity dictionary), and leaves the solved matrices, the
\* index dictionaries, the sparse matrices, the coordinate arrays and the two
\* tables of the object unchanged.
C21_ReadOnly ==
    [][(last'.op \in Aggregators /\ ncalls' = ncalls + 1) =>
          /\ last'.context = last'.args.LCA
          /\ UNCHANGED <<solved, dicts, technosphere_matrix, biosphere_matrix, coords,
                         tech_matrix, bio_matrix>>]_vars

\* a second aggregator call has returned a total that is not zero, of the supply
\* array it was given
C21_Witness ==
    /\ ncalls = MaxCalls
    /\ last.op = "get_mass_flow"
    /\ last.outcome = "ok"
    /\ last.result # Num(0)
    /\ last.context.supply_array = last.args.LCA.supply_array

\* a call of the builder with the given kind of profile and all its parameters
IsBuild(kind) ==
    /\ last.op = "_build_temporal_distribution"
    /\ last.args.kind = kind
IsDecay ==
    /\ IsBuild("exponential_decay")
    /\ HasKey(last.args.params, "k") /\ HasKey(last.args.params, "period")
    /\ RatLe(Rat(0, 1), DictGet(last.args.params, "k"))
    /\ DictGet(last.args.params, "k") # Rat(0, 1)
Period == DictGet(last.args.params, "period")
\* the amounts of the returned distribution sum to the amount distributed
MassBalance == RatSum(last.result.amount) = last.args.amount
\* the year-0 amount of the returned distribution is its largest / its smallest
YearZeroMax == \A i \in 1..Len(last.result.amount) :
                  RatLe(last.result.amount[i], last.result.amount[1])
YearZeroMin == \A i \in 1..Len(last.result.amount) :
                  RatLe(last.result.amount[1], last.result.amount[i])

\* C24 as stated (exponential decay profile): for k > 0 the builder returns
\* period + 1 points at the years 0..period, whose amounts sum to the amount and
\* whose year-0 amount is the maximum.
C24_YearZeroMaximum ==
    IsDecay =>
        /\ last.outcome = "ok"
        /\ last.result.date = arange(Period + 1)
        /\ Len(last.result.amount) = Period + 1
        /\ MassBalance
        /\ Len(last.result.amount) > 0 /\ YearZeroMax

\* C24 (exponential decay profile), amended: for k > 0 and a period >= 0 the
\* builder returns period + 1 points at the years 0..period, whose amounts sum to
\* the amount; the year-0 amount is the maximum when the amount is not negative
\* and the minimum when the amount is not positive.
C24_ExponentialDecay ==
    (IsDecay /\ Period >= 0) =>
        /\ last.outcome = "ok"
        /\ last.result.date = [i \in 1..(Period + 1) |-> i - 1]
        /\ Len(last.result.amount) = Period + 1
        /\ MassBalance
        /\ RatLe(Rat(0, 1), last.args.amount) => YearZeroMax
        /\ RatLe(last.args.amount, Rat(0, 1)) => YearZeroMin

\* a negative amount has been spread over the longest period: the year-0 amount
\* is below the amount of the year after
C24_Witness ==
    /\ IsDecay
    /\ Period = MaxPeriod
    /\ last.outcome = "ok"
    /\ last.args.amount.n < 0
    /\ last.result.amount[1] # last.result.amount[2]
    /\ RatLe(last.result.amount[1], last.result.amount[2])

IsUniform ==
    /\ IsBuild("uniform")
    /\ HasKey(last.args.params, "end") /\ HasKey(last.args.params, "steps")
Steps == DictGet(last.args.params, "steps")
\* every point of the returned distribution carries amount / steps
EvenShares == \A i \in 1..Len(last.result.amount) :
                 RatMul(last.result.amount[i], Rat(Steps, 1)) = last.args.amount

C26_Immediate ==
    IsBuild("immediate") =>
        /\ last.outcome = "ok"
        /\ last.result.date = <<0>>
        /\ last.result.amount = <<last.args.amount>>

\* an amount that is not zero has been released at once
C26_Witness ==
    /\ IsBuild("immediate")
    /\ last.outcome = "ok"
    /\ last.args.amount.n # 0
    /\ Len(last.result.date) = 1

Named(profiles, ex) ==
    /\ ex.type = "biosphere"
    /\ HasKey(profiles, ex.database)
    /\ HasKey(DictGet(profiles, ex.database), ex.name)
ProfileOf(profiles, ex) == DictGet(DictGet(profiles, ex.database), ex.name)
\* the exchange with the distribution of its own amount and that profile
Attached(profiles, ex) ==
    [ex EXCEPT !.temporal_distribution =
        _build_temporal_distribution(
            ex.amount, DictGet(ProfileOf(profiles, ex), "kind"),
            IF HasKey(ProfileOf(profiles, ex), "params")
            THEN DictGet(ProfileOf(profiles, ex), "params") ELSE << >>).value]

\* C23 (targeted attachment): a call of attach_temporal_distributions that returns
\* sets the temporal_distribution of exactly the biosphere exchanges whose database
\* is a named process and whose flow name has a profile under that process, each
\* to the distribution built from the exchange's own amount with that profile's
\* kind and params, and leaves every other exchange unchanged; a call that raises
\* changes no exchange but some of those, in that way.
C23_TargetedAttachment ==
    [][(last'.op = "attach_temporal_distributions" /\ ncalls' = ncalls + 1) =>
          LET profiles == last'.args.process_temporal_profiles
          IN /\ Len(exchanges') = Len(exchanges)
             /\ \A i \in 1..Len(exchanges) :
                   IF Named(profiles, exchanges[i])
                   THEN \/ exchanges'[i] = Attached(profiles, exchanges[i])
                        \/ last'.outcome # "ok" /\ exchanges'[i] = exchanges[i]
                   ELSE exchanges'[i] = exchanges[i]]_vars

\* a call that named two processes has returned: the landfill's methane has its
\* decay curve, the methane of the waste-to-energy plant is released at once, and
\* the methane of the scenario, which was not named, has no distribution
C23_Witness ==
    /\ last.op = "attach_temporal_distributions"
    /\ last.outcome = "ok"
    /\ Len(last.args.process_temporal_profiles) = 2
    /\ exchanges[1].temporal_distribution # None
    /\ Len(exchanges[1].temporal_distribution.date) = MaxPeriod + 1
    /\ exchanges[5].temporal_distribution = Immediate(exchanges[5].amount)
    /\ exchanges[3].temporal_distribution = None
    /\ exchanges[6].temporal_distribution = None

\* the set of the elements of a sequence
Range(q) == {q[i] : i \in 1..Len(q)}
\* the rows characterized by a call of calculate
CharacterizedOf(args) == args.df_co2 \o args.df_ch4

\* C27 (shape of the result of calculate): a call that returns yields a table
\* with exactly the columns year, gwp_kgco2eq, flow, activity; it has one row per
\* (year, flow, activity) group of the characterized rows, whose gwp_kgco2eq is
\* the sum of the characterized amounts of the group, the rows in ascending year
\* order; when no requested flow is found or no row is characterized the table
\* is empty, with the same four columns.
C27_ResultShape ==
    (last.op = "calculate" /\ last.outcome = "ok") =>
        LET df == CharacterizedOf(last.args)
            rows == last.result.rows
        IN /\ Range(last.result.columns) = {"year", "gwp_kgco2eq", "flow", "activity"}
           /\ Len(last.result.columns) = 4
           /\ {<<rows[i].year, rows[i].flow, rows[i].activity>> : i \in 1..Len(rows)}
                 = {GroupOf(df[p]) : p \in 1..Len(df)}
           /\ \A i, j \in 1..Len(rows) :
                 /\ i < j => rows[i].year <= rows[j].year
                 /\ <<rows[i].year, rows[i].flow, rows[i].activity>>
                       = <<rows[j].year, rows[j].flow, rows[j].activity>> => i = j
           /\ \A i \in 1..Len(rows) :
                 rows[i].gwp_kgco2eq =
                     SumAt([p \in 1..Len(df) |-> df[p].amount],
                           {p \in 1..Len(df) :
                               GroupOf(df[p]) = <<rows[i].year, rows[i].flow,
                                                  rows[i].activity>>})
           /\ (flow_node_map(last.args.flows_to_characterize) = {} \/ df = << >>)
                 => rows = << >>

\* a call has returned one row for two amounts characterized at two dates of one
\* year
C27_Witness ==
    /\ last.op = "calculate"
    /\ last.outcome = "ok"
    /\ Len(CharacterizedOf(last.args)) = MaxRows
    /\ Len(last.result.rows) = 1
    /\ last.result.rows[1].gwp_kgco2eq = Num(2)
    /\ \E p, q \in 1..Len(CharacterizedOf(last.args)) :
          CharacterizedOf(last.args)[p].date # CharacterizedOf(last.args)[q].date

\* C29 (timeline coherence): in every reachable state _timeline is unset or is
\* the timeline built by the current _temporalis_lca.
C29_TimelineCoherence ==
    _timeline # None =>
        /\ _temporalis_lca # None
        /\ _timeline.lca = _temporalis_lca.id

\* the keys that the passes of an applier call derive from its report
TargetKeys(steps) == {steps[p].key : p \in {q \in 1..Len(steps) : steps[q].err = "none"}}

\* C28 (applier frame): a call of update_techmatrix or update_biomatrix, whether
\* it returns or raises, keeps the keys of both tables in their insertion order,
\* changes the value of no entry of its own table other than the target keys its
\* passes derive from the report, and changes no value of the other table.
C28_ApplierFrame ==
    [][(last'.op \in {"update_techmatrix", "update_biomatrix"} /\ ncalls' = ncalls + 1) =>
          LET targets == TargetKeys(last'.steps)
          IN /\ DictKeys(tech_matrix') = DictKeys(tech_matrix)
             /\ DictKeys(bio_matrix') = DictKeys(bio_matrix)
             /\ \A i \in 1..Len(tech_matrix) :
                   (last'.op = "update_techmatrix" /\ tech_matrix[i].k \in targets)
                      \/ tech_matrix'[i].v = tech_matrix[i].v
             /\ \A i \in 1..Len(bio_matrix) :
                   (last'.op = "update_biomatrix" /\ bio_matrix[i].k \in targets)
                      \/ bio_matrix'[i].v = bio_matrix[i].v]_vars

\* a second applier call has raised after it changed the value of a key that is
\* not the last of its table, the first call having changed the other table
C28_Witness ==
    /\ ncalls = 2
    /\ last.op = "update_biomatrix"
    /\ last.outcome # "ok"
    /\ last.failed > 1
    /\ tech_matrix # BuiltTechTable
    /\ \E i \in 1..(Len(bio_matrix) - 1) :
          /\ bio_matrix[i].k \in TargetKeys(last.steps)
          /\ bio_matrix[i].v # BuiltBioTable[i].v

\* ---------------------------------------------------------------------------
\* uuid_migration.py: biosphere3 flow UUIDs of ecoinvent 3.5 and their
\* replacements in the 2024 Brightway biosphere3 database
\* ---------------------------------------------------------------------------

\* legacy (deprecated) code -> current code
BIOSPHERE_UUID_MIGRATION == <<
    Entry("9c2a7dc9-8b1f-46ba-bc16-0d761a4f6016", "90f722bf-cb9b-571a-88fc-34286632bdc4"),
    Entry("c941d6d0-a56c-4e6c-95de-ac685635218d", "c9a8073a-8a19-5b9b-a120-7d549563b67b"),
    Entry("b53d3744-3629-4219-be20-980865e54031", "5f7aad3d-566c-4d0d-ad59-e765f971aa0f"),
    Entry("43b2649e-26f8-400d-bc0a-a0667e850915", "0d218f74-181d-49b6-978c-8af836611102"),
    Entry("d07867e3-66a8-4454-babd-78dc7f9a21f8", "91d68678-7ed7-417a-86a7-a486c7b8a973"),
    Entry("66a6dad0-e450-4206-88e1-f823a04f8b1d", "a058168e-9a1e-5126-80b6-2d202e746835"),
    Entry("f9c73aca-3d5c-4072-81dd-b8e0643530a6", "9ae11925-3df9-5fde-b7af-1627c0818347"),
    Entry("e3043a7f-5347-4c7b-89ee-93f11b2f6d9b", "33fd8342-58e7-45c9-ad92-0951c002c403"),
    Entry("e030108f-2125-4bcb-a73b-ad72130fcca3", "56815b4f-6138-4e0b-9fac-c94fd6b102b3"),
    Entry("a07b8a8c-8cab-4656-a82f-310e8069e323", "c21a1397-82dc-427a-a6cb-c790ba2626f4"),
    Entry("b8c794de-ac20-47f6-ae87-84d91e95da93", "31eacbfc-683a-4d36-afc1-80dee42a3b94")
>>

\* {v: k for k, v in d.items()}: the items in insertion order, a later item
\* replacing the value of a key that an earlier one stored
RECURSIVE ReverseFrom(_, _, _)
ReverseFrom(d, i, acc) ==
    IF i > Len(d) THEN acc ELSE ReverseFrom(d, i + 1, DictSet(acc, d[i].v, d[i].k))

_REVERSE_MIGRATION == ReverseFrom(BIOSPHERE_UUID_MIGRATION, 1, << >>)

\* dict.get(k): the stored value, or None
get(d, k) == IF HasKey(d, k) THEN PyStr(DictGet(d, k)) ELSE None

\* the truth value of what dict.get returned
truthy(x) == x # None /\ x.s # ""

\* isinstance(key, tuple) and len(key) == 2 and key[0] == "biosphere3"
IsBiosphere3Key(key) == key.t = "tuple" /\ Len(key.e) = 2 /\ key.e[1] = "biosphere3"

migrate_biosphere_key(key) ==
    IF IsBiosphere3Key(key)
    THEN LET new_code == get(BIOSPHERE_UUID_MIGRATION, key.e[2])
         IN IF truthy(new_code) THEN PyTuple(<<"biosphere3", new_code.s>>) ELSE key
    ELSE key

\* a reverse lookup that reads the forward table
original_biosphere_key_forward(key) ==
    IF IsBiosphere3Key(key)
    THEN LET old_code == get(BIOSPHERE_UUID_MIGRATION, key.e[2])
         IN IF truthy(old_code) THEN PyTuple(<<"biosphere3", old_code.s>>) ELSE key
    ELSE key
original_biosphere_key(key) ==
    IF IsBiosphere3Key(key)
    THEN LET old_code == get(_REVERSE_MIGRATION, key.e[2])
         IN IF truthy(old_code) THEN PyTuple(<<"biosphere3", old_code.s>>) ELSE key
    ELSE key

LegacyCodes == {BIOSPHERE_UUID_MIGRATION[i].k : i \in 1..Len(BIOSPHERE_UUID_MIGRATION)}
CurrentCodes == {BIOSPHERE_UUID_MIGRATION[i].v : i \in 1..Len(BIOSPHERE_UUID_MIGRATION)}

\* the keys the two functions are called with: biosphere3 keys with a legacy code,
\* a current code, a code outside the table and the empty code, keys of another
\* database with a code of the table, tuples of other lengths, and a plain string
BiosphereKeys ==
    {PyTuple(<<"biosphere3", c>>) :
        c \in LegacyCodes \cup CurrentCodes \cup {"f1a2b3c4-0000-4000-8000-000000000000", ""}}
    \cup {PyTuple(<<"Technosphere", c>>) :
        c \in {BIOSPHERE_UUID_MIGRATION[1].k, BIOSPHERE_UUID_MIGRATION[1].v}}
    \cup {PyTuple(<<"biosphere3">>),
          PyTuple(<<"biosphere3", BIOSPHERE_UUID_MIGRATION[1].k, "air">>),
          PyStr(BIOSPHERE_UUID_MIGRATION[1].k), PyStr("biosphere3")}

Migrate ==
    /\ ncalls < MaxCalls
    /\ \E key \in BiosphereKeys :
          last' = [NoCall EXCEPT !.op = "migrate_biosphere_key", !.args = key,
                                 !.result = migrate_biosphere_key(key)]
    /\ ncalls' = ncalls + 1
    /\ UNCHANGED <<dynamic, solved, dicts, technosphere_matrix, biosphere_matrix, coords,
                   tech_matrix, bio_matrix>>

Original ==
    /\ ncalls < MaxCalls
    /\ \E key \in BiosphereKeys :
          last' = [NoCall EXCEPT !.op = "original_biosphere_key", !.args = key,
                                 !.result = original_biosphere_key(key)]
    /\ ncalls' = ncalls + 1
    /\ UNCHANGED <<dynamic, solved, dicts, technosphere_matrix, biosphere_matrix, coords,
                   tech_matrix, bio_matrix>>

InitUuid == InitMass
NextUuid == Migrate \/ Original
SpecUuid == InitUuid /\ [][NextUuid]_vars

\* the key has a legacy code of the table
IsLegacyKey(key) == IsBiosphere3Key(key) /\ key.e[2] \in LegacyCodes

\* C30 (UUID migration round-trip): original_biosphere_key applied to what
\* migrate_biosphere_key returned for a biosphere3 key with a legacy code gives
\* that key back, the migrated key being another key; the table is injective and
\* no current code is a legacy code; migrate_biosphere_key returns a key that is
\* not a biosphere3 key, or whose code is not in the table, unchanged.
C30_RoundTrip ==
    [][/\ (/\ last.op = "migrate_biosphere_key"
           /\ IsLegacyKey(last.args)
           /\ last'.op = "original_biosphere_key"
           /\ last'.args = last.result) =>
              /\ last'.result = last.args
              /\ last.result # last.args
       /\ (last'.op = "migrate_biosphere_key" /\ ~IsLegacyKey(last'.args)) =>
              last'.result = last'.args
       /\ \A i, j \in 1..Len(BIOSPHERE_UUID_MIGRATION) :
              BIOSPHERE_UUID_MIGRATION[i].v = BIOSPHERE_UUID_MIGRATION[j].v => i = j
       /\ LegacyCodes \cap CurrentCodes = {}]_vars

\* a legacy key was migrated to another key and the reverse lookup of that key
\* has returned the legacy key
C30_Witness ==
    /\ ncalls = 2
    /\ last.op = "original_biosphere_key"
    /\ IsBiosphere3Key(last.args)
    /\ last.args.e[2] \in CurrentCodes
    /\ last.result # last.args
    /\ IsLegacyKey(last.result)
    /\ migrate_biosphere_key(last.result) = last.args

====
